---------------------------- MODULE Spec2Model ----------------------------
(***************************************************************************)
(* A model of KumDB: the store engine of src/kumdb/core.py (table cache,   *)
(* secondary indexes, deferred writer, transaction stack) and the three    *)
(* serialization backends of src/backends (temp-file-then-rename save).    *)
(*                                                                         *)
(* Python lists are mutable objects.  The store keeps at most two list     *)
(* objects per table alive: the cached list and the list handed to the     *)
(* deferred writer.  A pending-write entry therefore records whether it IS *)
(* the cached list (alias = TRUE: later in-place appends and updates show  *)
(* through it) or a list of its own (alias = FALSE, with its data).        *)
(***************************************************************************)
EXTENDS Integers, Sequences, FiniteSets, TLC

\* ------------------------------------------------------------------ bounds
MaxOps == 2

\* --------------------------------------------------------------- constants
Threads == {"T1", "T2"}
Writer == "writer"
NoOwner == "none"
TableNames == {"t1", "t2"}
Fields == {"id", "status"}
CallerIds == {"a", "b"}
StatusValues == {"open", "done"}
UuidNames == <<"u1", "u2", "u3", "u4", "u5", "u6", "u7", "u8">>
IndexTypes == {"hash", "btree"}

RecA == [id |-> "a", status |-> "open"]
RecB == [id |-> "b", status |-> "done"]
NoIdRec == [status |-> "open"]

\* ----------------------------------------------------------------- helpers
Has(r, f) == f \in DOMAIN r

Range(s) == {s[i] : i \in DOMAIN s}

RECURSIVE SelectSeqBy(_, _)
SelectSeqBy(s, keep) ==
    IF s = <<>> THEN <<>>
    ELSE (IF keep[1] THEN <<Head(s)>> ELSE <<>>)
         \o SelectSeqBy(Tail(s), Tail(keep))

\* list.remove(x): drops the first occurrence only
RECURSIVE RemoveFirst(_, _)
RemoveFirst(s, x) ==
    IF s = <<>> THEN <<>>
    ELSE IF Head(s) = x THEN Tail(s)
    ELSE <<Head(s)>> \o RemoveFirst(Tail(s), x)

\* dict.update(new_data)
DictUpdate(r, nd) ==
    [f \in DOMAIN r \cup DOMAIN nd |-> IF f \in DOMAIN nd THEN nd[f] ELSE r[f]]

NoneFile == [state |-> "none", recs |-> <<>>]
Complete(recs) == [state |-> "complete", recs |-> recs]
Partial == [state |-> "partial", recs |-> <<>>]
NotCached == [hit |-> FALSE, recs |-> <<>>]
Cached(recs) == [hit |-> TRUE, recs |-> recs]

\* ------------------------------------------------------- dict-like helpers
DelKey(fn, k) == [x \in DOMAIN fn \ {k} |-> fn[x]]

SetKey(fn, k, v) == [x \in DOMAIN fn \cup {k} |-> IF x = k THEN v ELSE fn[x]]

EmptyDict == [x \in {} |-> <<>>]

\* The value dict.get() gives for a missing key
NoneValue == "None"

Get(row, f) == IF Has(row, f) THEN row[f] ELSE NoneValue

\* ------------------------------------------------------------ KumDB._matches
\* One condition is [field, op, value]; op = "" is the bare field=value form.
KnownOps == {"eq", "ne", "gt", "lt", "gte", "lte", "in", "nin",
             "contains", "startswith", "endswith", "regex"}

\* Values are written as strings.  These stand for Python ints, NoneValue for
\* None, every other string for a str.
IntOf == ("5" :> 5) @@ ("18" :> 18) @@ ("30" :> 30) @@ ("65" :> 65) @@ ("70" :> 70)

TypeOf(v) ==
    IF v \in DOMAIN IntOf THEN "int"
    ELSE IF v = NoneValue THEN "NoneType"
    ELSE "str"

\* The strs that ordering comparisons meet, in Python's str order
StrAsc == <<"old", "x">>

Rank(v) ==
    IF TypeOf(v) = "int" THEN IntOf[v]
    ELSE CHOOSE i \in DOMAIN StrAsc : StrAsc[i] = v

\* Python's a < b: int with int, str with str, TypeError otherwise
less(a, b) ==
    IF TypeOf(a) = TypeOf(b) /\ TypeOf(a) \in {"int", "str"}
    THEN IF Rank(a) < Rank(b) THEN "yes" ELSE "no"
    ELSE "TypeError"

\* Proper prefixes, suffixes and inner parts of the texts the string
\* operators meet, as <<part, text>>
PrefixOf == {<<"op", "open">>, <<"do", "done">>}
SuffixOf == {<<"en", "open">>, <<"ne", "done">>}
InnerOf == {<<"pe", "open">>, <<"on", "done">>}

startswith(text, part) == part = text \/ <<part, text>> \in PrefixOf
endswith(text, part) == part = text \/ <<part, text>> \in SuffixOf
contains(text, part) ==
    startswith(text, part) \/ endswith(text, part) \/ <<part, text>> \in InnerOf

\* The collections given to in / nin, by the name they are written with
Members == ("[open, done]" :> {"open", "done"}) @@ ("[18, 30]" :> {"18", "30"})

YesNo(b) == IF b THEN "match" ELSE "nomatch"

order_result_strict(op, field_value, value) ==
    LET lt == less(field_value, value)
        gt == less(value, field_value)
    IN IF lt = "TypeError" THEN "TypeError"
       ELSE IF op \in {"gt", "gte"} THEN YesNo(gt = "yes")
       ELSE YesNo(lt = "yes")

\* The ordering operators: "if field_value <= value: return False" and so on
order_result(op, field_value, value) ==
    LET lt == less(field_value, value)
        gt == less(value, field_value)
    IN IF lt = "TypeError" THEN "TypeError"
       ELSE IF op = "gt" THEN YesNo(gt = "yes")
       ELSE IF op = "lt" THEN YesNo(lt = "yes")
       ELSE IF op = "gte" THEN YesNo(lt = "no")
       ELSE YesNo(gt = "no")

\* The text operators on str(field_value); a value that is not a str raises
\* TypeError.  A regex value is a literal pattern.
text_result(op, field_value, value) ==
    IF TypeOf(value) # "str" THEN "TypeError"
    ELSE IF op = "startswith" THEN YesNo(startswith(field_value, value))
    ELSE IF op = "endswith" THEN YesNo(endswith(field_value, value))
    ELSE YesNo(contains(field_value, value))

cond_result(row, c) ==
    IF c.op # ""
    THEN IF ~Has(row, c.field) THEN "nomatch"
         ELSE IF c.op = "eq" THEN (IF row[c.field] # c.value THEN "nomatch" ELSE "match")
         ELSE IF c.op = "ne" THEN (IF row[c.field] = c.value THEN "nomatch" ELSE "match")
         ELSE IF c.op \in {"gt", "lt", "gte", "lte"}
              THEN order_result(c.op, row[c.field], c.value)
         ELSE IF c.op = "in" THEN YesNo(row[c.field] \in Members[c.value])
         ELSE IF c.op = "nin" THEN YesNo(row[c.field] \notin Members[c.value])
         ELSE IF c.op \in {"contains", "startswith", "endswith", "regex"}
              THEN text_result(c.op, row[c.field], c.value)
         ELSE "InvalidDataError"
    ELSE IF Get(row, c.field) # c.value THEN "nomatch" ELSE "match"

\* "match", "nomatch", or the exception the scan of the conditions raised
RECURSIVE matches(_, _)
matches(row, conditions) ==
    IF conditions = <<>> THEN "match"
    ELSE LET r == cond_result(row, Head(conditions))
         IN IF r = "match" THEN matches(row, Tail(conditions)) ELSE r

MatchFlags(recs, conditions) ==
    [i \in DOMAIN recs |-> matches(recs[i], conditions) = "match"]

\* The first exception a scan of recs raises ("" when none)
RECURSIVE scan_error(_, _)
scan_error(recs, conditions) ==
    IF recs = <<>> THEN ""
    ELSE LET r == matches(Head(recs), conditions)
         IN IF r \in {"match", "nomatch"} THEN scan_error(Tail(recs), conditions)
            ELSE r

\* --------------------------------------------------------- KumDB._load_table
\* [err, recs]: the list returned, or the exception raised.  A miss that
\* succeeds also stores the list in the cache (see CacheAfterLoad).
load_table_uncached(tbls, ca, fs, t) ==
    IF t \notin tbls THEN [err |-> "TableNotFoundError", recs |-> <<>>]
    ELSE IF fs[t].state = "complete" THEN [err |-> "", recs |-> fs[t].recs]
    ELSE [err |-> "InvalidDataError", recs |-> <<>>]

load_table_in(tbls, ca, fs, t) ==
    IF t \notin tbls THEN [err |-> "TableNotFoundError", recs |-> <<>>]
    ELSE IF ca[t].hit THEN [err |-> "", recs |-> ca[t].recs]
    ELSE IF fs[t].state = "complete" THEN [err |-> "", recs |-> fs[t].recs]
    ELSE [err |-> "InvalidDataError", recs |-> <<>>]

CacheAfterLoad(tbls, ca, fs, t) ==
    IF load_table_in(tbls, ca, fs, t).err = ""
    THEN [ca EXCEPT ![t] = Cached(load_table_in(tbls, ca, fs, t).recs)]
    ELSE ca

\* ---------------------------------------------------- KumDB._schedule_write
PendingIndex(pw, t) == {i \in DOMAIN pw : pw[i].table = t}

schedule_write(pw, t, alias, data) ==
    LET e == [table |-> t, alias |-> alias, data |-> IF alias THEN <<>> ELSE data]
    IN IF PendingIndex(pw, t) # {}
       THEN [i \in DOMAIN pw |-> IF pw[i].table = t THEN e ELSE pw[i]]
       ELSE Append(pw, e)

\* The list object a pending entry refers to
PendingData(ca, e) == IF e.alias THEN ca[e.table].recs ELSE e.data

\* cache[t] is about to be rebound to another list object (or dropped):
\* a pending entry that was the cached list keeps the old object.
Detach(pw, ca, t) ==
    [i \in DOMAIN pw |->
        IF pw[i].table = t /\ pw[i].alias
        THEN [table |-> t, alias |-> FALSE, data |-> ca[t].recs]
        ELSE pw[i]]

\* ------------------------------------------------------ KumDB._save_table
\* In-place rewrite: open(path, 'w') truncates the file, then the dump
\* writes it.  ok = FALSE is a dump that fails after the truncation.
save_table(fs, ca, t, data, ok) ==
    IF ok
    THEN [files |-> [fs EXCEPT ![t] = Complete(data)],
          cache |-> [ca EXCEPT ![t] = Cached(data)],
          err |-> ""]
    ELSE [files |-> [fs EXCEPT ![t] = Partial],
          cache |-> ca,
          err |-> "InvalidDataError"]

\* ---------------------------------------------------- KumDB._update_indexes
remove_old_skipped(data, old_value, record_id) == data

remove_old(data, old_value, record_id) ==
    IF old_value \in DOMAIN data /\ record_id \in Range(data[old_value])
    THEN IF RemoveFirst(data[old_value], record_id) = <<>>
         THEN DelKey(data, old_value)
         ELSE [data EXCEPT ![old_value] = RemoveFirst(@, record_id)]
    ELSE data

add_to_bucket(data, value, record_id) ==
    LET d == IF value \notin DOMAIN data THEN SetKey(data, value, <<>>) ELSE data
    IN IF record_id \notin Range(d[value])
       THEN [d EXCEPT ![value] = Append(@, record_id)]
       ELSE d

update_indexes(ix, t, record, old_values) ==
    IF t \notin DOMAIN ix THEN ix
    ELSE IF Get(record, "id") \in {NoneValue, ""} THEN ix
    ELSE [ix EXCEPT ![t] =
            [f \in DOMAIN ix[t] |->
                IF ~Has(record, f) THEN ix[t][f]
                ELSE [type |-> ix[t][f].type,
                      data |-> add_to_bucket(
                                 IF Has(old_values, f)
                                 THEN remove_old(ix[t][f].data, old_values[f], record.id)
                                 ELSE ix[t][f].data,
                                 record[f], record.id)]]]

\* ------------------------------------------------ KumDB._remove_from_indexes
remove_from_data(data, record_id) ==
    [v \in {x \in DOMAIN data : RemoveFirst(data[x], record_id) # <<>>} |->
        RemoveFirst(data[v], record_id)]

remove_from_indexes(ix, t, record_id) ==
    IF t \notin DOMAIN ix THEN ix
    ELSE [ix EXCEPT ![t] =
            [f \in DOMAIN ix[t] |->
                [type |-> ix[t][f].type,
                 data |-> remove_from_data(ix[t][f].data, record_id)]]]

VARIABLES
    auto_commit,        \* KumDB.auto_commit
    tables,             \* KumDB.tables
    files,              \* the table files under KumDB.folder
    cache,              \* KumDB._cache
    indexes,            \* KumDB._indexes
    pending_writes,     \* KumDB._pending_writes (insertion-ordered dict)
    submitted,          \* tasks queued on KumDB._writer_executor
    transaction_stack,  \* KumDB._transaction_stack
    lock,               \* owner of KumDB._lock
    pc,                 \* position of each caller thread inside an unlocked method
    local,              \* that method's local variables
    w_pc,               \* position of the executor's worker thread
    w_idx,              \* the worker's position in its loop over _pending_writes
    uuid_next,          \* number of uuid4() values drawn so far
    ops,                \* number of calls started
    op_limit,           \* how many calls the callers make in this run
    last,               \* the call that returned last, with what it returned
    txn_obs,            \* per frame: what find read at begin, tables mutated since,
                        \* and the thread whose begin_transaction pushed it
    find_cache,         \* the lru_cache of KumDB.find: one result per call key
    future_exc,         \* the exception held by the Futures submit() returned
                        \* ("" when none); _schedule_write keeps no Future
    archive             \* the .kum file the last backup() wrote

svars == <<auto_commit, tables, files, cache, indexes, pending_writes, submitted,
           transaction_stack, lock, pc, local, w_pc, w_idx, uuid_next, ops,
           op_limit, last, txn_obs, find_cache, future_exc, archive>>

\* ---------------------------------------------- one serialization backend
\* A file is an inode: a reader that has opened the path keeps reading the
\* inode it opened, whatever the path is renamed to afterwards.
VARIABLES
    bk_kind,        \* which backend class: "csv", "json", "msgpack"
    field_types,    \* CSVBackend._field_types
    inodes,         \* inode number -> content
    dir_target,     \* the inode self.path names (0: no such file)
    tmp_files,      \* the inodes that temporary names of the directory name
    s_pc,           \* position of the thread inside save()
    s_tmp,          \* the local "tmp" of save() (0: not bound)
    s_data,         \* the records being saved
    s_exc,          \* the exception in flight ("" when none)
    s_calls,        \* number of save() calls started
    s_before,       \* content of the target when the current save() was called
    s_renamed,      \* whether the current save() has renamed onto the target
    r_pc,           \* position of the reading thread inside load() / stream()
    r_inode,        \* the inode the reader has opened
    r_rows,         \* the rows it has read so far
    r_seen,         \* the contents the target path held while it was reading
    r_calls,        \* number of load() / stream() calls started
    r_out,          \* the records the reader has converted so far
    r_prev,         \* what save() had done when the reader was called
    b_last,         \* the save() call that ended last, with its outcome
    bk_lock,        \* who holds the backend's self._lock (a threading.Lock)
    gens,           \* the generators stream() has returned
    l_pc,           \* position of a thread that calls load()
    l_calls         \* number of such load() calls started

lvars == <<bk_lock, gens, l_pc, l_calls>>

bvars == <<lvars, bk_kind, field_types, inodes, dir_target, tmp_files, s_pc, s_tmp,
           s_data, s_exc, s_calls, s_before, s_renamed, r_pc, r_inode, r_rows,
           r_seen, r_calls, r_out, r_prev, b_last>>

vars == <<svars, bvars>>

\* ------------------------------------------------------------ observations
NoLocal ==
    [table |-> "", recs |-> <<>>, op |-> "",
     frame |-> [tables |-> {}, original_data |-> <<>>],
     obs |-> [base |-> <<>>, touched |-> {}, owner |-> ""]]

Ret(op, t, err, n, conds) ==
    [op |-> op, table |-> t, err |-> err, n |-> n, conds |-> conds,
     touched |-> {}, base |-> <<>>]

\* What find(t) with no conditions reads now
View(t) == load_table_in(tables, cache, files, t)

Touched(t) == [i \in DOMAIN txn_obs |-> [txn_obs[i] EXCEPT !.touched = @ \cup {t}]]

FrameWithTable == [tables |-> {"t1"}, original_data |-> EmptyDict]

\* begin_transaction: the frame it pushes
NewFrame == [tables |-> {}, original_data |-> EmptyDict]

\* No backup has been written
NoArchive == [exists |-> FALSE, tables |-> {}, data |-> EmptyDict]

\* ------------------------------------------------------------------- Init
InitFiles ==
    {[t \in TableNames |-> IF t = "t1" THEN Complete(r) ELSE NoneFile] :
        r \in {<<>>, <<RecA>>, <<RecA, RecB>>}}

\* KumDB.__init__: tables are discovered from the files of the folder
discover_tables(fs) == {t \in TableNames : fs[t].state # "none"}

InitStore(limit) ==
    /\ op_limit = limit
    /\ auto_commit \in BOOLEAN
    /\ files \in InitFiles
    /\ tables = discover_tables(files)
    /\ cache = [t \in TableNames |-> NotCached]
    /\ indexes = EmptyDict
    /\ pending_writes = <<>>
    /\ submitted = 0
    /\ transaction_stack = <<>>
    /\ lock = NoOwner
    /\ pc = [th \in Threads |-> "idle"]
    /\ local = [th \in Threads |-> NoLocal]
    /\ w_pc = "idle"
    /\ w_idx = 0
    /\ uuid_next = 0
    /\ ops = 0
    /\ last = Ret("init", "", "", 0, <<>>)
    /\ txn_obs = <<>>
    /\ find_cache = {}
    /\ future_exc = ""
    /\ archive = NoArchive

\* A locked method: the caller is outside any method and takes the RLock
CanLock(th) == pc[th] = "idle" /\ lock = NoOwner /\ ops < op_limit

\* ------------------------------------------------------------- KumDB.add
AddInputs ==
    {[id |-> i, status |-> s] : i \in CallerIds, s \in StatusValues}
    \cup {[status |-> s] : s \in StatusValues}

Add(th, t, data) ==
    /\ CanLock(th)
    /\ LET d == IF Has(data, "id") THEN data
                ELSE DictUpdate(data, [id |-> UuidNames[uuid_next + 1]])
           lr == load_table_in(tables, cache, files, t)
       IN /\ uuid_next' = IF Has(data, "id") THEN uuid_next ELSE uuid_next + 1
          /\ IF lr.err # ""
             THEN /\ last' = Ret("add", t, lr.err, 0, <<>>)
                  /\ UNCHANGED <<cache, pending_writes, submitted, indexes, txn_obs>>
             ELSE /\ cache' = [cache EXCEPT ![t] = Cached(Append(lr.recs, d))]
                  /\ IF auto_commit
                     THEN /\ pending_writes' = schedule_write(pending_writes, t, TRUE, <<>>)
                          /\ submitted' = submitted + 1
                     ELSE UNCHANGED <<pending_writes, submitted>>
                  /\ indexes' = update_indexes(indexes, t, d, EmptyDict)
                  /\ last' = [Ret("add", t, "", 1, <<>>) EXCEPT !.base = <<d>>]
                  /\ txn_obs' = Touched(t)
    /\ ops' = ops + 1
    /\ UNCHANGED <<bvars, archive, find_cache, future_exc, op_limit, auto_commit, tables, files, transaction_stack, lock, pc, local,
                   w_pc, w_idx>>

\* ----------------------------------------------------------- KumDB.update
\* The loop over the cached list: records are changed in place, one by one,
\* so an exception raised by a later record leaves the earlier ones changed.
RECURSIVE update_scan(_, _, _, _, _, _, _)
update_scan(done, rest, ix, n, t, where, new_data) ==
    IF rest = <<>> THEN [recs |-> done, ix |-> ix, n |-> n, err |-> ""]
    ELSE LET r == Head(rest)
             m == matches(r, where)
             old_values == [k \in DOMAIN new_data \cap DOMAIN r |-> r[k]]
             r2 == DictUpdate(r, new_data)
         IN IF m = "match"
            THEN update_scan(Append(done, r2), Tail(rest),
                             update_indexes(ix, t, r2, old_values), n + 1,
                             t, where, new_data)
            ELSE IF m = "nomatch"
            THEN update_scan(Append(done, r), Tail(rest), ix, n, t, where, new_data)
            ELSE [recs |-> done \o rest, ix |-> ix, n |-> n, err |-> m]

C(f, op, v) == [field |-> f, op |-> op, value |-> v]

CondInputs == {<<>>, <<C("id", "", "a")>>, <<C("status", "", "open")>>}

UpdateInputs == {[status |-> "done"], [status |-> "open"], [id |-> "b"]}

Update(th, t, where, new_data) ==
    /\ CanLock(th)
    /\ LET lr == load_table_in(tables, cache, files, t)
           us == update_scan(<<>>, lr.recs, indexes, 0, t, where, new_data)
       IN IF lr.err # ""
          THEN /\ last' = Ret("update", t, lr.err, 0, where)
               /\ UNCHANGED <<cache, pending_writes, submitted, indexes, txn_obs>>
          ELSE /\ cache' = [cache EXCEPT ![t] = Cached(us.recs)]
               /\ indexes' = us.ix
               /\ IF us.err = "" /\ us.n > 0 /\ auto_commit
                  THEN /\ pending_writes' = schedule_write(pending_writes, t, TRUE, <<>>)
                       /\ submitted' = submitted + 1
                  ELSE UNCHANGED <<pending_writes, submitted>>
               /\ last' = [Ret("update", t, us.err, us.n, where) EXCEPT !.base = new_data]
               /\ txn_obs' = IF us.n > 0 THEN Touched(t) ELSE txn_obs
    /\ ops' = ops + 1
    /\ UNCHANGED <<bvars, archive, find_cache, future_exc, op_limit, auto_commit, tables, files, transaction_stack, lock, pc, local,
                   w_pc, w_idx, uuid_next>>

\* ----------------------------------------------------------- KumDB.delete
RECURSIVE remove_matched(_, _, _, _)
remove_matched(ix, t, recs, flags) ==
    IF recs = <<>> THEN ix
    ELSE remove_matched(
            IF flags[1] /\ Has(Head(recs), "id")
            THEN remove_from_indexes(ix, t, Head(recs).id) ELSE ix,
            t, Tail(recs), Tail(flags))

Delete(th, t, conditions) ==
    /\ CanLock(th)
    /\ LET lr == load_table_in(tables, cache, files, t)
           records == lr.recs
           flags == MatchFlags(records, conditions)
           remaining == SelectSeqBy(records, [i \in DOMAIN flags |-> ~flags[i]])
           deleted == Len(records) - Len(remaining)
           serr == scan_error(records, conditions)
       IN IF lr.err # ""
          THEN /\ last' = Ret("delete", t, lr.err, 0, conditions)
               /\ UNCHANGED <<cache, pending_writes, submitted, indexes, txn_obs>>
          ELSE /\ cache' = [cache EXCEPT ![t] = Cached(records)]
               /\ IF serr # ""
                  THEN /\ last' = Ret("delete", t, serr, 0, conditions)
                       /\ UNCHANGED <<pending_writes, submitted, indexes, txn_obs>>
                  ELSE /\ IF deleted > 0 /\ auto_commit
                          THEN /\ pending_writes' =
                                    schedule_write(pending_writes, t, FALSE, remaining)
                               /\ submitted' = submitted + 1
                          ELSE UNCHANGED <<pending_writes, submitted>>
                       /\ indexes' = IF deleted > 0
                                     THEN remove_matched(indexes, t, records, flags)
                                     ELSE indexes
                       /\ last' = Ret("delete", t, "", deleted, conditions)
                       /\ txn_obs' = IF deleted > 0 THEN Touched(t) ELSE txn_obs
    /\ ops' = ops + 1
    /\ UNCHANGED <<bvars, archive, find_cache, future_exc, op_limit, auto_commit, tables, files, transaction_stack, lock, pc, local,
                   w_pc, w_idx, uuid_next>>

\* ----------------------------------------------------- KumDB.batch_import
RECURSIVE index_all(_, _, _)
index_all(ix, t, data) ==
    IF data = <<>> THEN ix
    ELSE index_all(update_indexes(ix, t, Head(data), EmptyDict), t, Tail(data))

BatchInputs == {<<RecB>>, <<RecA, [id |-> "b", status |-> "open"]>>, <<NoIdRec>>}

BatchImport(th, t, data) ==
    /\ CanLock(th)
    /\ LET lr == load_table_in(tables, cache, files, t)
       IN IF lr.err # ""
          THEN /\ last' = Ret("batch_import", t, lr.err, 0, <<>>)
               /\ UNCHANGED <<cache, pending_writes, submitted, indexes, txn_obs>>
          ELSE /\ cache' = [cache EXCEPT ![t] = Cached(lr.recs \o data)]
               /\ IF auto_commit
                  THEN /\ pending_writes' = schedule_write(pending_writes, t, TRUE, <<>>)
                       /\ submitted' = submitted + 1
                  ELSE UNCHANGED <<pending_writes, submitted>>
               /\ indexes' = index_all(indexes, t, data)
               /\ last' = [Ret("batch_import", t, "", Len(data), <<>>) EXCEPT !.base = data]
               /\ txn_obs' = Touched(t)
    /\ ops' = ops + 1
    /\ UNCHANGED <<bvars, archive, find_cache, future_exc, op_limit, auto_commit, tables, files, transaction_stack, lock, pc, local,
                   w_pc, w_idx, uuid_next>>

\* ------------------------------------------------------------- KumDB.find
\* @lru_cache(maxsize=100): the wrapper looks the call up by (table,
\* conditions) before the method body runs, outside the lock.  A hit
\* returns the list the earlier call returned; a call that raises stores
\* nothing.  The stored list shares its row objects with the table's list:
\* find_cache keeps the rows as they were returned and does not follow the
\* changes update makes to them in place afterwards.
find_key(t, conditions) == <<t, conditions>>

find_hit(fc, t, conditions) == \E e \in fc : e.key = find_key(t, conditions)

find_cached(fc, t, conditions) ==
    (CHOOSE e \in fc : e.key = find_key(t, conditions)).result

Find(th, t, conditions) ==
    /\ pc[th] = "idle" /\ ops < op_limit
    /\ IF find_hit(find_cache, t, conditions)
       THEN /\ last' = [Ret("find", t, "", Len(find_cached(find_cache, t, conditions)),
                            conditions)
                          EXCEPT !.base = find_cached(find_cache, t, conditions)]
            /\ UNCHANGED <<cache, find_cache>>
       ELSE /\ lock = NoOwner
            /\ LET lr == load_table_in(tables, cache, files, t)
                   serr == scan_error(lr.recs, conditions)
                   result == SelectSeqBy(lr.recs, MatchFlags(lr.recs, conditions))
               IN /\ cache' = CacheAfterLoad(tables, cache, files, t)
                  /\ last' = IF lr.err # "" THEN Ret("find", t, lr.err, 0, conditions)
                             ELSE IF serr # "" THEN Ret("find", t, serr, 0, conditions)
                             ELSE [Ret("find", t, "", Len(result), conditions)
                                      EXCEPT !.base = result]
                  /\ find_cache' = IF lr.err = "" /\ serr = ""
                                   THEN find_cache \cup
                                        {[key |-> find_key(t, conditions),
                                          result |-> result]}
                                   ELSE find_cache
    /\ ops' = ops + 1
    /\ UNCHANGED <<bvars, archive, future_exc, op_limit, auto_commit, tables, files, indexes, pending_writes, submitted,
                   transaction_stack, lock, pc, local, w_pc, w_idx, uuid_next,
                   txn_obs>>

\* ----------------------------------------------------- KumDB.create_index
\* [err, data]: the value -> ids dict of the scan, or the KeyError of
\* record['id'] on a record that has the field and no id (hash kind only).
RECURSIVE build_index(_, _, _, _)
build_index(recs, field, index_type, index) ==
    IF recs = <<>> THEN [err |-> "", data |-> index]
    ELSE LET r == Head(recs)
         IN IF ~Has(r, field) \/ index_type # "hash"
            THEN build_index(Tail(recs), field, index_type, index)
            ELSE IF ~Has(r, "id") THEN [err |-> "KeyError", data |-> index]
            ELSE build_index(Tail(recs), field, index_type,
                    [(IF r[field] \notin DOMAIN index
                      THEN SetKey(index, r[field], <<>>) ELSE index)
                        EXCEPT ![r[field]] = Append(@, r.id)])

has_index_never(ix, t, field) == FALSE

\* "if field in self._indexes[table]"
has_index(ix, t, field) == field \in DOMAIN ix[t]

CreateIndex(th, t, field, index_type) ==
    /\ CanLock(th)
    /\ LET ix1 == IF t \notin DOMAIN indexes THEN SetKey(indexes, t, EmptyDict)
                  ELSE indexes
           lr == load_table_in(tables, cache, files, t)
           bi == build_index(lr.recs, field, index_type, EmptyDict)
           ret(err) == [Ret("create_index", t, err, 0, <<>>)
                           EXCEPT !.base = <<field, index_type>>]
       IN IF has_index(ix1, t, field)
          THEN /\ last' = ret("InvalidDataError")
               /\ UNCHANGED <<indexes, cache>>
          ELSE IF lr.err # ""
          THEN /\ last' = ret(lr.err)
               /\ indexes' = ix1
               /\ UNCHANGED cache
          ELSE /\ cache' = [cache EXCEPT ![t] = Cached(lr.recs)]
               /\ last' = ret(bi.err)
               /\ indexes' = IF bi.err # "" THEN ix1
                             ELSE [ix1 EXCEPT ![t] =
                                     SetKey(@, field, [type |-> index_type,
                                                       data |-> bi.data])]
    /\ ops' = ops + 1
    /\ UNCHANGED <<bvars, archive, find_cache, future_exc, op_limit, auto_commit, tables, files, pending_writes, submitted,
                   transaction_stack, lock, pc, local, w_pc, w_idx, uuid_next,
                   txn_obs>>

\* --------------------------------------------------------- table operations
CreateTable(th, t, with_index, ok) ==
    /\ CanLock(th)
    /\ LET sv == save_table(files, cache, t, <<>>, ok)
       IN IF t \in tables
          THEN /\ last' = Ret("create_table", t, "InvalidDataError", 0, <<>>)
               /\ UNCHANGED <<files, cache, tables, indexes, pending_writes>>
          ELSE /\ files' = sv.files
               /\ cache' = sv.cache
               /\ pending_writes' = IF ok THEN Detach(pending_writes, cache, t)
                                    ELSE pending_writes
               /\ last' = Ret("create_table", t, sv.err, 0, <<>>)
               /\ tables' = IF ok THEN tables \cup {t} ELSE tables
               /\ indexes' =
                    IF ok /\ with_index
                    THEN LET ix1 == IF t \notin DOMAIN indexes
                                    THEN SetKey(indexes, t, EmptyDict) ELSE indexes
                         IN IF "status" \in DOMAIN ix1[t] THEN indexes
                            ELSE [ix1 EXCEPT ![t] =
                                    SetKey(@, "status", [type |-> "hash",
                                                         data |-> EmptyDict])]
                    ELSE indexes
    /\ ops' = ops + 1
    /\ UNCHANGED <<bvars, archive, find_cache, future_exc, op_limit, auto_commit, submitted, transaction_stack, lock, pc, local,
                   w_pc, w_idx, uuid_next, txn_obs>>

DropTable(th, t) ==
    /\ CanLock(th)
    /\ IF files[t].state = "none"
       THEN /\ last' = Ret("drop_table", t, "TableNotFoundError", 0, <<>>)
            /\ UNCHANGED <<files, tables, indexes, cache, pending_writes>>
       ELSE /\ files' = [files EXCEPT ![t] = NoneFile]
            /\ IF t \notin tables
               THEN /\ last' = Ret("drop_table", t, "KeyError", 0, <<>>)
                    /\ UNCHANGED <<tables, indexes, cache, pending_writes>>
               ELSE /\ tables' = tables \ {t}
                    /\ indexes' = IF t \in DOMAIN indexes THEN DelKey(indexes, t)
                                  ELSE indexes
                    /\ cache' = [cache EXCEPT ![t] = NotCached]
                    /\ pending_writes' = Detach(pending_writes, cache, t)
                    /\ last' = Ret("drop_table", t, "", 0, <<>>)
    /\ ops' = ops + 1
    /\ UNCHANGED <<bvars, archive, find_cache, future_exc, op_limit, auto_commit, submitted, transaction_stack, lock, pc, local,
                   w_pc, w_idx, uuid_next, txn_obs>>

TruncateTable(th, t, ok) ==
    /\ CanLock(th)
    /\ LET sv == save_table(files, cache, t, <<>>, ok)
       IN /\ files' = sv.files
          /\ cache' = sv.cache
          /\ pending_writes' = IF ok THEN Detach(pending_writes, cache, t)
                               ELSE pending_writes
          /\ indexes' = IF ok /\ t \in DOMAIN indexes
                        THEN [indexes EXCEPT ![t] = EmptyDict] ELSE indexes
          /\ last' = Ret("truncate_table", t, sv.err, 0, <<>>)
    /\ ops' = ops + 1
    /\ UNCHANGED <<bvars, archive, find_cache, future_exc, op_limit, auto_commit, tables, submitted, transaction_stack, lock, pc,
                   local, w_pc, w_idx, uuid_next, txn_obs>>

\* ------------------------------------------------------------ transactions
\* begin_transaction: one list.append, outside the lock
BeginTransaction(th) ==
    /\ pc[th] = "idle" /\ ops < op_limit
    /\ transaction_stack' = Append(transaction_stack, NewFrame)
    /\ txn_obs' = Append(txn_obs, [base |-> [t \in TableNames |-> View(t)],
                                   touched |-> {}, owner |-> th])
    /\ last' = Ret("begin_transaction", "", "", 0, <<>>)
    /\ ops' = ops + 1
    /\ UNCHANGED <<bvars, archive, find_cache, future_exc, op_limit, auto_commit, tables, files, cache, indexes, pending_writes,
                   submitted, lock, pc, local, w_pc, w_idx, uuid_next>>

\* commit_transaction / rollback_transaction without the emptiness check
EndCheckUnguarded(th, op) ==
    /\ pc[th] = "idle" /\ ops < op_limit
    /\ pc' = [pc EXCEPT ![th] = "pop"]
    /\ local' = [local EXCEPT ![th] = [NoLocal EXCEPT !.op = op]]
    /\ ops' = ops + 1
    /\ UNCHANGED <<bvars, archive, find_cache, future_exc, op_limit, auto_commit, tables, files, cache, indexes,
                   pending_writes, submitted, transaction_stack, lock, w_pc, w_idx,
                   uuid_next, last, txn_obs>>

\* commit_transaction / rollback_transaction, outside the lock:
\* "if not self._transaction_stack: raise TransactionError"
EndCheck(th, op) ==
    /\ pc[th] = "idle" /\ ops < op_limit
    /\ IF transaction_stack = <<>>
       THEN /\ last' = Ret(op, "", "TransactionError", 0, <<>>)
            /\ UNCHANGED <<pc, local>>
       ELSE /\ pc' = [pc EXCEPT ![th] = "pop"]
            /\ local' = [local EXCEPT ![th] = [NoLocal EXCEPT !.op = op]]
            /\ UNCHANGED last
    /\ ops' = ops + 1
    /\ UNCHANGED <<bvars, archive, find_cache, future_exc, op_limit, auto_commit, tables, files, cache, indexes, pending_writes,
                   submitted, transaction_stack, lock, w_pc, w_idx, uuid_next,
                   txn_obs>>

\* "transaction = self._transaction_stack.pop()", still outside the lock
EndPop(th) ==
    /\ pc[th] = "pop"
    /\ IF transaction_stack = <<>>
       THEN /\ last' = Ret(local[th].op, "", "IndexError", 0, <<>>)
            /\ pc' = [pc EXCEPT ![th] = "idle"]
            /\ local' = [local EXCEPT ![th] = NoLocal]
            /\ UNCHANGED <<transaction_stack, txn_obs>>
       ELSE /\ local' = [local EXCEPT
                           ![th].frame = transaction_stack[Len(transaction_stack)],
                           ![th].obs = txn_obs[Len(txn_obs)]]
            /\ transaction_stack' = SubSeq(transaction_stack, 1,
                                           Len(transaction_stack) - 1)
            /\ txn_obs' = SubSeq(txn_obs, 1, Len(txn_obs) - 1)
            /\ pc' = [pc EXCEPT ![th] = "body"]
            /\ UNCHANGED last
    /\ UNCHANGED <<bvars, archive, find_cache, future_exc, op_limit, auto_commit, tables, files, cache, indexes, pending_writes,
                   submitted, lock, w_pc, w_idx, uuid_next, ops>>

Orders(S) == {o \in [1..Cardinality(S) -> S] : Range(o) = S}

\* commit: for table in transaction['tables']:
\*             self._save_table(table, self._load_table(table))
RECURSIVE commit_saves(_, _, _, _, _, _)
commit_saves(tbls, fs, ca, order, fail_at, i) ==
    IF i > Len(order) THEN [files |-> fs, cache |-> ca, err |-> ""]
    ELSE LET lr == load_table_in(tbls, ca, fs, order[i])
             sv == save_table(fs, ca, order[i], lr.recs, i # fail_at)
         IN IF lr.err # "" THEN [files |-> fs, cache |-> ca, err |-> lr.err]
            ELSE IF sv.err # "" THEN sv
            ELSE commit_saves(tbls, sv.files, sv.cache, order, fail_at, i + 1)

CommitBody(th) ==
    /\ pc[th] = "body" /\ local[th].op = "commit_transaction" /\ lock = NoOwner
    /\ \E order \in Orders(local[th].frame.tables) :
       \E fail_at \in 0..Len(order) :
          LET cs == commit_saves(tables, files, cache, order, fail_at, 1)
          IN /\ files' = cs.files
             /\ cache' = cs.cache
             /\ last' = [Ret("commit_transaction", "", cs.err, 0, <<>>) EXCEPT
                           !.touched = local[th].obs.touched,
                           !.base = local[th].obs.base]
    /\ pc' = [pc EXCEPT ![th] = "idle"]
    /\ local' = [local EXCEPT ![th] = NoLocal]
    /\ UNCHANGED <<bvars, archive, find_cache, future_exc, op_limit, auto_commit, tables, indexes, pending_writes, submitted,
                   transaction_stack, lock, w_pc, w_idx, uuid_next, ops, txn_obs>>

\* rollback: for table, data in transaction['original_data'].items():
\*               self._save_table(table, data)
\*           for table in transaction['tables']: del self._cache[table]
RECURSIVE rollback_saves(_, _, _, _, _, _, _)
rollback_saves(fs, ca, pw, original_data, order, fail_at, i) ==
    IF i > Len(order) THEN [files |-> fs, cache |-> ca, pending |-> pw, err |-> ""]
    ELSE LET sv == save_table(fs, ca, order[i], original_data[order[i]], i # fail_at)
         IN IF sv.err # ""
            THEN [files |-> sv.files, cache |-> sv.cache, pending |-> pw,
                  err |-> sv.err]
            ELSE rollback_saves(sv.files, sv.cache, Detach(pw, ca, order[i]),
                                original_data, order, fail_at, i + 1)

RECURSIVE evict_all(_, _, _)
evict_all(ca, pw, ts) ==
    IF ts = {} THEN [cache |-> ca, pending |-> pw]
    ELSE LET t == CHOOSE x \in ts : TRUE
         IN evict_all([ca EXCEPT ![t] = NotCached], Detach(pw, ca, t), ts \ {t})

RollbackBody(th) ==
    /\ pc[th] = "body" /\ local[th].op = "rollback_transaction" /\ lock = NoOwner
    /\ \E order \in Orders(DOMAIN local[th].frame.original_data) :
       \E fail_at \in 0..Len(order) :
          LET rs == rollback_saves(files, cache, pending_writes,
                                   local[th].frame.original_data, order, fail_at, 1)
              ev == IF rs.err # "" THEN [cache |-> rs.cache, pending |-> rs.pending]
                    ELSE evict_all(rs.cache, rs.pending, local[th].frame.tables)
          IN /\ files' = rs.files
             /\ cache' = ev.cache
             /\ pending_writes' = ev.pending
             /\ last' = [Ret("rollback_transaction", "", rs.err, 0, <<>>) EXCEPT
                           !.touched = local[th].obs.touched,
                           !.base = local[th].obs.base]
    /\ pc' = [pc EXCEPT ![th] = "idle"]
    /\ local' = [local EXCEPT ![th] = NoLocal]
    /\ UNCHANGED <<bvars, archive, find_cache, future_exc, op_limit, auto_commit, tables, indexes, submitted, transaction_stack,
                   lock, w_pc, w_idx, uuid_next, ops, txn_obs>>

\* ------------------------------------------- KumDB.query / export_table
\* Both call _load_table outside the lock.  A hit returns the cached list.
ReadStart(th, op, t) ==
    /\ pc[th] = "idle" /\ ops < op_limit
    /\ IF t \notin tables
       THEN /\ last' = Ret(op, t, "TableNotFoundError", 0, <<>>)
            /\ UNCHANGED <<pc, local>>
       ELSE IF cache[t].hit
       THEN /\ last' = [Ret(op, t, "", Len(cache[t].recs), <<>>) EXCEPT
                          !.base = cache[t].recs]
            /\ UNCHANGED <<pc, local>>
       ELSE /\ pc' = [pc EXCEPT ![th] = "load_read"]
            /\ local' = [local EXCEPT ![th] = [NoLocal EXCEPT !.op = op, !.table = t]]
            /\ UNCHANGED last
    /\ ops' = ops + 1
    /\ UNCHANGED <<bvars, archive, find_cache, future_exc, op_limit, auto_commit, tables, files, cache, indexes, pending_writes,
                   submitted, transaction_stack, lock, w_pc, w_idx, uuid_next,
                   txn_obs>>

\* the miss path: "with open(path) as f: data = json.load(f)"
ReadFile(th) ==
    /\ pc[th] = "load_read"
    /\ IF files[local[th].table].state = "complete"
       THEN /\ local' = [local EXCEPT ![th].recs = files[local[th].table].recs]
            /\ pc' = [pc EXCEPT ![th] = "load_store"]
            /\ UNCHANGED last
       ELSE /\ last' = Ret(local[th].op, local[th].table, "InvalidDataError", 0, <<>>)
            /\ pc' = [pc EXCEPT ![th] = "idle"]
            /\ local' = [local EXCEPT ![th] = NoLocal]
    /\ UNCHANGED <<bvars, archive, find_cache, future_exc, op_limit, auto_commit, tables, files, cache, indexes, pending_writes,
                   submitted, transaction_stack, lock, w_pc, w_idx, uuid_next,
                   ops, txn_obs>>

\* "self._cache[table] = data; return data"
ReadStore(th) ==
    /\ pc[th] = "load_store"
    /\ cache' = [cache EXCEPT ![local[th].table] = Cached(local[th].recs)]
    /\ pending_writes' = Detach(pending_writes, cache, local[th].table)
    /\ last' = [Ret(local[th].op, local[th].table, "", Len(local[th].recs), <<>>)
                  EXCEPT !.base = local[th].recs]
    /\ pc' = [pc EXCEPT ![th] = "idle"]
    /\ local' = [local EXCEPT ![th] = NoLocal]
    /\ UNCHANGED <<bvars, archive, find_cache, future_exc, op_limit, auto_commit, tables, files, indexes, submitted,
                   transaction_stack, lock, w_pc, w_idx, uuid_next, ops, txn_obs>>

\* ----------------------------------------------------------- KumDB.backup
\* "table: self._load_table(table) for table in self.tables": the tables are
\* loaded one after the other; the first load that fails ends the call.
RECURSIVE load_all(_, _, _, _, _, _)
load_all(tbls, ca, fs, order, data, i) ==
    IF i > Len(order) THEN [cache |-> ca, data |-> data, err |-> ""]
    ELSE LET lr == load_table_in(tbls, ca, fs, order[i])
         IN IF lr.err # "" THEN [cache |-> ca, data |-> data, err |-> lr.err]
            ELSE load_all(tbls, CacheAfterLoad(tbls, ca, fs, order[i]), fs, order,
                          SetKey(data, order[i], lr.recs), i + 1)

\* ok = FALSE: serializing or writing the archive fails ("Backup failed")
Backup(th, ok) ==
    /\ CanLock(th)
    /\ \E order \in Orders(tables) :
          LET la == load_all(tables, cache, files, order, EmptyDict, 1)
          IN /\ cache' = la.cache
             /\ IF la.err # ""
                THEN /\ last' = Ret("backup", "", la.err, 0, <<>>)
                     /\ UNCHANGED archive
                ELSE IF ~ok
                THEN /\ last' = Ret("backup", "", "InvalidDataError", 0, <<>>)
                     /\ UNCHANGED archive
                ELSE /\ last' = Ret("backup", "", "", 0, <<>>)
                     /\ archive' = [exists |-> TRUE, tables |-> tables,
                                     data |-> la.data]
    /\ ops' = ops + 1
    /\ UNCHANGED <<bvars, find_cache, future_exc, op_limit, auto_commit, tables, files,
                   indexes, pending_writes, submitted, transaction_stack, lock, pc,
                   local, w_pc, w_idx, uuid_next, txn_obs>>

\* ---------------------------------------------------------- KumDB.restore
\* drop_table(table, confirm=True) as restore calls it, on a known table
drop_table(st, t) ==
    IF st.files[t].state = "none"
    THEN [st EXCEPT !.err = "TableNotFoundError"]
    ELSE [tables |-> st.tables \ {t},
          files |-> [st.files EXCEPT ![t] = NoneFile],
          indexes |-> IF t \in DOMAIN st.indexes THEN DelKey(st.indexes, t)
                      ELSE st.indexes,
          cache |-> [st.cache EXCEPT ![t] = NotCached],
          pending |-> Detach(st.pending, st.cache, t),
          err |-> ""]

\* "for table in list(self.tables): self.drop_table(table, confirm=True)"
RECURSIVE drop_all(_, _, _)
drop_all(st, order, i) ==
    IF i > Len(order) \/ st.err # "" THEN st
    ELSE drop_all(drop_table(st, order[i]), order, i + 1)

\* "for table, records in backup['data'].items():
\*      self._save_table(table, records); self.tables.add(table)"
RECURSIVE restore_saves(_, _, _, _, _)
restore_saves(st, data, order, fail_at, i) ==
    IF i > Len(order) \/ st.err # "" THEN st
    ELSE LET t == order[i]
             sv == save_table(st.files, st.cache, t, data[t], i # fail_at)
         IN restore_saves(
               [tables |-> IF sv.err = "" THEN st.tables \cup {t} ELSE st.tables,
                files |-> sv.files,
                indexes |-> st.indexes,
                cache |-> sv.cache,
                pending |-> IF sv.err = "" THEN Detach(st.pending, st.cache, t)
                            ELSE st.pending,
                err |-> sv.err],
               data, order, fail_at, i + 1)

\* restore(backup_file, confirm=True) of the archive the last backup wrote.
\* Every exception inside the try block is raised as InvalidDataError.
Restore(th) ==
    /\ CanLock(th)
    /\ IF ~archive.exists
       THEN /\ last' = Ret("restore", "", "FileNotFoundError", 0, <<>>)
            /\ UNCHANGED <<tables, files, indexes, cache, pending_writes>>
       ELSE \E drops \in Orders(tables), saves \in Orders(archive.tables) :
            \E fail_at \in 0..Len(saves) :
               LET st0 == [tables |-> tables, files |-> files, indexes |-> indexes,
                           cache |-> cache, pending |-> pending_writes, err |-> ""]
                   st1 == drop_all(st0, drops, 1)
                   st2 == restore_saves(st1, archive.data, saves, fail_at, 1)
               IN /\ tables' = st2.tables
                  /\ files' = st2.files
                  /\ indexes' = st2.indexes
                  /\ cache' = st2.cache
                  /\ pending_writes' = st2.pending
                  /\ last' = [Ret("restore", "",
                                  IF st2.err # "" THEN "InvalidDataError" ELSE "",
                                  0, <<>>) EXCEPT !.touched = tables]
    /\ ops' = ops + 1
    /\ UNCHANGED <<bvars, archive, find_cache, future_exc, op_limit, auto_commit,
                   submitted, transaction_stack, lock, pc, local, w_pc, w_idx,
                   uuid_next, txn_obs>>

\* ---------------------------------------------- KumDB._process_pending_writes
\* The executor's single worker takes a queued task and the RLock
WriterAcquire ==
    /\ w_pc = "idle" /\ submitted > 0 /\ lock = NoOwner
    /\ lock' = Writer /\ w_pc' = "flush" /\ w_idx' = 1
    /\ submitted' = submitted - 1
    /\ UNCHANGED <<bvars, archive, find_cache, future_exc, op_limit, auto_commit, tables, files, cache, indexes, pending_writes,
                   transaction_stack, pc, local, uuid_next, ops, last, txn_obs>>

\* One round of the loop: _save_table(table, data).  A failed save raises out
\* of the task (the Future is never read): the dict is not cleared.
WriterSave(ok) ==
    /\ w_pc = "flush" /\ w_idx <= Len(pending_writes)
    /\ LET e == pending_writes[w_idx]
           sv == save_table(files, cache, e.table, PendingData(cache, e), ok)
       IN /\ files' = sv.files
          /\ cache' = sv.cache
          /\ IF ok
             THEN /\ pending_writes' = [pending_writes EXCEPT
                                          ![w_idx] = [table |-> e.table, alias |-> TRUE,
                                                      data |-> <<>>]]
                  /\ w_idx' = w_idx + 1
                  /\ UNCHANGED <<lock, w_pc>>
             ELSE /\ lock' = NoOwner /\ w_pc' = "idle" /\ w_idx' = 0
                  /\ UNCHANGED pending_writes
          /\ future_exc' = IF ok THEN future_exc ELSE sv.err
    /\ UNCHANGED <<bvars, archive, find_cache, op_limit, auto_commit, tables, indexes, submitted, transaction_stack, pc,
                   local, uuid_next, ops, last, txn_obs>>

\* the task without its last line
WriterDoneKeepsPending ==
    /\ w_pc = "flush" /\ w_idx > Len(pending_writes)
    /\ lock' = NoOwner /\ w_pc' = "idle" /\ w_idx' = 0
    /\ UNCHANGED <<bvars, archive, find_cache, future_exc, op_limit, auto_commit, tables, files, cache, indexes,
                   submitted, pending_writes, transaction_stack, pc, local, uuid_next,
                   ops, last, txn_obs>>

\* "self._pending_writes.clear()" and the end of the with block
WriterDone ==
    /\ w_pc = "flush" /\ w_idx > Len(pending_writes)
    /\ pending_writes' = <<>>
    /\ lock' = NoOwner /\ w_pc' = "idle" /\ w_idx' = 0
    /\ UNCHANGED <<bvars, archive, find_cache, future_exc, op_limit, auto_commit, tables, files, cache, indexes, submitted,
                   transaction_stack, pc, local, uuid_next, ops, last, txn_obs>>

\* ========================================================== the backends
MaxSaves == 2
MaxReads == 2

Kinds == {"csv", "json", "msgpack"}

S(x) == [ty |-> "str", s |-> x]
I(x) == [ty |-> "int", s |-> x]

X1 == [id |-> S("a"), n |-> I("1")]
X2 == [id |-> S("b"), n |-> I("2")]

SaveInputs == {<<>>, <<X1>>, <<X2, X1>>}

EmptyContent == [header |-> {}, rows |-> <<>>, complete |-> TRUE]

\* CSVBackend._infer_field_types
infer_field_types(ft, sample_record) ==
    [f \in DOMAIN ft \cup DOMAIN sample_record |->
        IF f \in DOMAIN sample_record
        THEN (IF sample_record[f].ty \in {"bool", "int", "float"}
              THEN sample_record[f].ty ELSE "str")
        ELSE ft[f]]

\* CSVBackend._convert_to_csv: str(record.get(field, '')) for the known fields
convert_to_csv(ft, record) ==
    [f \in DOMAIN ft |-> IF Has(record, f) THEN record[f].s ELSE ""]

\* The bytes save() writes: what the encoder makes of the records
encode(kind, ft, records) ==
    IF kind = "csv"
    THEN [header |-> DOMAIN ft,
          rows |-> [i \in DOMAIN records |-> convert_to_csv(ft, records[i])],
          complete |-> TRUE]
    ELSE [header |-> {}, rows |-> records, complete |-> TRUE]

\* A write that fails partway leaves a prefix of the bytes
Prefixes(c) ==
    {[header |-> c.header, rows |-> SubSeq(c.rows, 1, k), complete |-> FALSE] :
        k \in 0..Len(c.rows)}

\* Strings that int() and float() accept, and what float() makes of them
IntStrings == {"1", "2"}
FloatStrings == {"1.5"}
float_repr(s) == IF s \in IntStrings THEN s \o ".0" ELSE s

\* CSVBackend._convert_types, one cell
convert_cell(ft, field, value) ==
    IF field \notin DOMAIN ft THEN S(value)
    ELSE IF ft[field] = "bool"
         THEN [ty |-> "bool", s |-> IF value \in {"true", "True", "TRUE"}
                                    THEN "True" ELSE "False"]
    ELSE IF ft[field] = "int"
         THEN (IF value \in IntStrings THEN I(value) ELSE S(value))
    ELSE IF ft[field] = "float"
         THEN (IF value \in IntStrings \cup FloatStrings
               THEN [ty |-> "float", s |-> float_repr(value)] ELSE S(value))
    ELSE S(value)

\* CSVBackend._convert_types
convert_types(ft, row) ==
    [f \in DOMAIN row |-> convert_cell(ft, f, row[f])]

\* What load() / stream() makes of one row of the file
decode_row(kind, ft, row) ==
    IF kind = "csv" THEN convert_types(ft, row) ELSE row

\* csv.DictReader skips a line that holds no cell at all
blank_row(kind, row) == kind = "csv" /\ DOMAIN row = {}

\* The generators of one backend, and a generator whose body has not started
Generators == {"g1", "g2"}
NewGen == [pc |-> "new", pos |-> 0, data |-> <<>>]

\* Nobody holds self._lock and no stream() or locked load() is under way
IdleStreams ==
    /\ bk_lock = NoOwner
    /\ gens = [g \in Generators |-> NewGen]
    /\ l_pc = "idle"
    /\ l_calls = 0

\* No save() has returned yet
NoSave == [returned |-> FALSE, exc |-> "", data |-> <<>>, calls |-> 0]

TargetContent == IF dir_target = 0 THEN EmptyContent ELSE inodes[dir_target]

InitBackend ==
    /\ bk_kind \in Kinds
    /\ field_types = EmptyDict
    /\ inodes \in {<<EmptyContent>>,
                   <<encode(bk_kind, infer_field_types(EmptyDict, X1), <<X1>>)>>}
    /\ dir_target = 1
    /\ tmp_files = {}
    /\ s_pc = "idle" /\ s_tmp = 0 /\ s_data = <<>> /\ s_exc = ""
    /\ s_calls = 0 /\ s_before = EmptyContent /\ s_renamed = FALSE
    /\ r_pc = "idle" /\ r_inode = 0 /\ r_rows = <<>> /\ r_seen = {} /\ r_calls = 0
    /\ r_out = <<>> /\ r_prev = NoSave
    /\ b_last = [op |-> "init", exc |-> ""]
    /\ IdleStreams

\* The backend is not in use
IdleBackend ==
    /\ bk_kind = "json"
    /\ field_types = EmptyDict
    /\ inodes = <<EmptyContent>>
    /\ dir_target = 1
    /\ tmp_files = {}
    /\ s_pc = "idle" /\ s_tmp = 0 /\ s_data = <<>> /\ s_exc = ""
    /\ s_calls = 0 /\ s_before = EmptyContent /\ s_renamed = FALSE
    /\ r_pc = "idle" /\ r_inode = 0 /\ r_rows = <<>> /\ r_seen = {} /\ r_calls = 0
    /\ r_out = <<>> /\ r_prev = NoSave
    /\ b_last = [op |-> "init", exc |-> ""]
    /\ IdleStreams

\* save(): up to "with NamedTemporaryFile(..., delete=False) as tmp"
SaveCall(data, created) ==
    /\ s_pc = "idle" /\ s_calls < MaxSaves
    /\ s_calls' = s_calls + 1
    /\ s_before' = TargetContent
    /\ s_renamed' = FALSE
    /\ s_data' = data
    /\ IF bk_kind = "csv" /\ data = <<>>
       THEN /\ b_last' = [op |-> "save", exc |-> ""]
            /\ UNCHANGED <<field_types, inodes, tmp_files, s_pc, s_tmp, s_exc>>
       ELSE /\ field_types' = IF bk_kind = "csv" /\ field_types = EmptyDict
                              THEN infer_field_types(field_types, data[1])
                              ELSE field_types
            /\ IF created = "ok"
               THEN /\ inodes' = Append(inodes, [EmptyContent EXCEPT !.complete = FALSE])
                    /\ s_tmp' = Len(inodes) + 1
                    /\ tmp_files' = tmp_files \cup {Len(inodes) + 1}
                    /\ s_pc' = "body"
                    /\ s_exc' = ""
               ELSE /\ s_tmp' = 0
                    /\ s_pc' = "except"
                    /\ s_exc' = created
                    /\ UNCHANGED <<inodes, tmp_files>>
            /\ UNCHANGED b_last
    /\ UNCHANGED <<svars, lvars, bk_kind, dir_target, r_pc, r_inode, r_rows, r_seen, r_calls,
                   r_out, r_prev>>

write_in_place == dir_target

\* The file the body of the with block writes to
write_inode == s_tmp

\* The body of the with block: encode, write, close.
\* JSONBackend passes an encoder instance as cls=: json.dumps raises TypeError.
SaveBody(written) ==
    /\ s_pc = "body"
    /\ IF bk_kind = "json"
       THEN /\ s_exc' = "TypeError"
            /\ s_pc' = "finally"
            /\ UNCHANGED inodes
       ELSE \E c \in (IF written = "ok" THEN {encode(bk_kind, field_types, s_data)}
                      ELSE Prefixes(encode(bk_kind, field_types, s_data))) :
               /\ inodes' = [inodes EXCEPT ![write_inode] = c]
               /\ s_exc' = IF written = "ok" THEN "" ELSE written
               /\ s_pc' = IF written = "ok" THEN "rename" ELSE "except"
    /\ r_seen' = IF r_pc = "reading" THEN r_seen \cup {inodes'[dir_target]} ELSE r_seen
    /\ UNCHANGED <<svars, lvars, bk_kind, field_types, dir_target, tmp_files, s_tmp, s_data,
                   s_calls, s_before, s_renamed, r_pc, r_inode, r_rows, r_calls,
                   r_out, r_prev, b_last>>

copy_over_target(ino, target, tmps, tmp) ==
    [inodes |-> [ino EXCEPT ![target] = ino[tmp]], dir_target |-> target,
     tmp_files |-> tmps \ {tmp}]

\* os.replace(tmp.name, self.path): [inodes, dir_target, tmp_files] afterwards
replace(ino, target, tmps, tmp) ==
    [inodes |-> ino, dir_target |-> tmp, tmp_files |-> tmps \ {tmp}]

SaveRename(ok) ==
    /\ s_pc = "rename"
    /\ IF ok
       THEN LET rp == replace(inodes, dir_target, tmp_files, s_tmp)
            IN /\ inodes' = rp.inodes
               /\ dir_target' = rp.dir_target
               /\ tmp_files' = rp.tmp_files
               /\ s_renamed' = TRUE
               /\ s_pc' = "finally"
               /\ UNCHANGED s_exc
       ELSE /\ s_exc' = "EIO"
            /\ s_pc' = "except"
            /\ UNCHANGED <<inodes, dir_target, tmp_files, s_renamed>>
    /\ r_seen' = IF r_pc = "reading" THEN r_seen \cup {inodes'[dir_target']} ELSE r_seen
    /\ UNCHANGED <<svars, lvars, bk_kind, field_types, s_tmp, s_data, s_calls, s_before,
                   r_pc, r_inode, r_rows, r_calls, r_out, r_prev, b_last>>

\* "except OSError as e": the exception the handler raises
handler_raises(kind, tmp, errno) ==
    IF errno = "ENOSPC"
    THEN IF tmp = 0 THEN "UnboundLocalError"
         ELSE IF kind = "csv" THEN "NameError"
         ELSE "DiskFullError"
    ELSE "StorageCorruptionError"

SaveExcept ==
    /\ s_pc = "except"
    /\ s_exc' = handler_raises(bk_kind, s_tmp, s_exc)
    /\ s_pc' = "finally"
    /\ UNCHANGED <<svars, lvars, bk_kind, field_types, inodes, dir_target, tmp_files, s_tmp,
                   s_data, s_calls, s_before, s_renamed, r_pc, r_inode, r_rows,
                   r_seen, r_calls, r_out, r_prev, b_last>>

finally_unlinks_on_success(kind, tmps, tmp, exc) ==
    IF tmp = 0
    THEN [tmp_files |-> tmps,
          exc |-> IF kind = "csv" THEN "UnboundLocalError" ELSE exc]
    ELSE [tmp_files |-> IF exc = "" THEN tmps \ {tmp} ELSE tmps, exc |-> exc]

\* "finally": [tmp_files, exc] afterwards.  CSVBackend reads tmp.name without
\* checking that tmp is bound.
finally_clause(kind, tmps, tmp, exc) ==
    IF tmp = 0
    THEN [tmp_files |-> tmps,
          exc |-> IF kind = "csv" THEN "UnboundLocalError" ELSE exc]
    ELSE [tmp_files |-> tmps \ {tmp}, exc |-> exc]

SaveFinally ==
    /\ s_pc = "finally"
    /\ LET fc == finally_clause(bk_kind, tmp_files, s_tmp, s_exc)
       IN /\ tmp_files' = fc.tmp_files
          /\ b_last' = [op |-> "save", exc |-> fc.exc]
    /\ s_pc' = "idle"
    /\ s_tmp' = 0
    /\ s_exc' = ""
    /\ UNCHANGED <<svars, lvars, bk_kind, field_types, inodes, dir_target, s_data, s_calls,
                   s_before, s_renamed, r_pc, r_inode, r_rows, r_seen, r_calls,
                   r_out, r_prev>>

\* The process is killed while save() runs
Kill ==
    /\ s_pc \notin {"idle", "killed"}
    /\ s_pc' = "killed"
    /\ r_pc' = "killed"
    /\ UNCHANGED <<svars, lvars, bk_kind, field_types, inodes, dir_target, tmp_files, s_tmp,
                   s_data, s_exc, s_calls, s_before, s_renamed, r_inode, r_rows,
                   r_seen, r_calls, r_out, r_prev, b_last>>

\* load() / stream(): open(self.path); both read the file they opened
ReadOpen ==
    /\ r_pc \in {"idle", "done", "failed", "raised"} /\ r_calls < MaxReads
    /\ r_calls' = r_calls + 1
    /\ r_inode' = dir_target
    /\ r_rows' = <<>>
    /\ r_seen' = {TargetContent}
    /\ r_out' = <<>>
    /\ r_prev' = IF s_pc = "idle" /\ b_last.op = "save"
                 THEN [returned |-> TRUE, exc |-> b_last.exc, data |-> s_data,
                       calls |-> s_calls]
                 ELSE [NoSave EXCEPT !.calls = s_calls]
    /\ r_pc' = "reading"
    /\ UNCHANGED <<svars, lvars, bk_kind, field_types, inodes, dir_target, tmp_files, s_pc,
                   s_tmp, s_data, s_exc, s_calls, s_before, s_renamed, b_last>>

\* The reader takes the next row of the file it has opened
ReadRow ==
    /\ r_pc = "reading"
    /\ Len(r_rows) < Len(inodes[r_inode].rows)
    /\ r_rows' = Append(r_rows, inodes[r_inode].rows[Len(r_rows) + 1])
    /\ r_out' = IF blank_row(bk_kind, inodes[r_inode].rows[Len(r_rows) + 1])
               THEN r_out
               ELSE Append(r_out, decode_row(bk_kind, field_types,
                                             inodes[r_inode].rows[Len(r_rows) + 1]))
    /\ UNCHANGED <<svars, lvars, bk_kind, field_types, inodes, dir_target, tmp_files, s_pc,
                   s_tmp, s_data, s_exc, s_calls, s_before, s_renamed, r_pc, r_inode,
                   r_seen, r_calls, r_prev, b_last>>

\* End of file: the csv reader takes what it got, the other two parse the
\* whole text and raise StorageCorruptionError on a cut one.  MsgpackBackend
\* hands the bytes to msgpack.Unpacker as its file_like argument, which
\* raises AttributeError (bytes has no read) that load() does not catch.
ReadEnd ==
    /\ r_pc = "reading"
    /\ Len(r_rows) >= Len(inodes[r_inode].rows)
    /\ r_pc' = IF bk_kind # "csv" /\ ~inodes[r_inode].complete THEN "failed"
               ELSE IF bk_kind = "msgpack" THEN "raised"
               ELSE "done"
    /\ UNCHANGED <<svars, lvars, bk_kind, field_types, inodes, dir_target, tmp_files, s_pc,
                   s_tmp, s_data, s_exc, s_calls, s_before, s_renamed, r_inode,
                   r_rows, r_seen, r_calls, r_out, r_prev, b_last>>

NextBackend ==
    \/ \E data \in SaveInputs, created \in {"ok", "ENOSPC", "EIO"} : SaveCall(data, created)
    \/ \E written \in {"ok", "ENOSPC", "EIO"} : SaveBody(written)
    \/ \E ok \in BOOLEAN : SaveRename(ok)
    \/ SaveExcept
    \/ SaveFinally
    \/ Kill
    \/ ReadOpen
    \/ ReadRow
    \/ ReadEnd

\* The store is not in use
IdleStore ==
    /\ InitStore(0)
    /\ auto_commit = FALSE
    /\ files = [t \in TableNames |-> IF t = "t1" THEN Complete(<<>>) ELSE NoneFile]

InitBk == InitBackend /\ IdleStore

SpecBackend == InitBk /\ [][NextBackend]_vars

\* ------------------------- JSONBackend / MsgpackBackend: load() and stream()
\* under self._lock.  The file is not written in this part.
MaxLoads == 2

\* What the body of load() or stream() makes of the file once it holds the
\* lock: a cut file raises StorageCorruptionError, and MsgpackBackend raises
\* AttributeError from msgpack.Unpacker(data, ...)
read_locked(kind, content) ==
    IF ~content.complete THEN [err |-> "StorageCorruptionError", rows |-> <<>>]
    ELSE IF kind = "msgpack" THEN [err |-> "AttributeError", rows |-> <<>>]
    ELSE [err |-> "", rows |-> content.rows]

\* next(g): the first call starts the body, which goes for the lock; a later
\* call resumes it after the yield, inside "with self._lock", and the body
\* leaves the with block when the records are used up
StreamNext(g) ==
    /\ gens[g].pc \in {"new", "suspended"}
    /\ IF gens[g].pc = "new"
       THEN /\ gens' = [gens EXCEPT ![g].pc = "acquiring"]
            /\ UNCHANGED bk_lock
       ELSE IF gens[g].pos < Len(gens[g].data)
       THEN /\ gens' = [gens EXCEPT ![g].pos = @ + 1]
            /\ UNCHANGED bk_lock
       ELSE /\ gens' = [gens EXCEPT ![g].pc = "done"]
            /\ bk_lock' = NoOwner
    /\ UNCHANGED <<svars, l_pc, l_calls, bk_kind, field_types, inodes, dir_target,
                   tmp_files, s_pc, s_tmp, s_data, s_exc, s_calls, s_before,
                   s_renamed, r_pc, r_inode, r_rows, r_seen, r_calls, r_out,
                   r_prev, b_last>>

\* "with self._lock, open(...) as f": the body gets the lock, reads the whole
\* file and stops at the first yield, still inside the with block
StreamAcquire(g) ==
    /\ gens[g].pc = "acquiring" /\ bk_lock = NoOwner
    /\ LET rd == read_locked(bk_kind, TargetContent)
       IN IF rd.err # ""
          THEN /\ gens' = [gens EXCEPT ![g].pc = "raised"]
               /\ UNCHANGED bk_lock
          ELSE IF rd.rows = <<>>
          THEN /\ gens' = [gens EXCEPT ![g].pc = "done"]
               /\ UNCHANGED bk_lock
          ELSE /\ gens' = [gens EXCEPT ![g] = [pc |-> "suspended", pos |-> 1,
                                               data |-> rd.rows]]
               /\ bk_lock' = g
    /\ UNCHANGED <<svars, l_pc, l_calls, bk_kind, field_types, inodes, dir_target,
                   tmp_files, s_pc, s_tmp, s_data, s_exc, s_calls, s_before,
                   s_renamed, r_pc, r_inode, r_rows, r_seen, r_calls, r_out,
                   r_prev, b_last>>

\* g.close(), or the generator is collected: GeneratorExit at the yield
\* unwinds the with block
StreamClose(g) ==
    /\ gens[g].pc = "suspended"
    /\ gens' = [gens EXCEPT ![g].pc = "closed"]
    /\ bk_lock' = NoOwner
    /\ UNCHANGED <<svars, l_pc, l_calls, bk_kind, field_types, inodes, dir_target,
                   tmp_files, s_pc, s_tmp, s_data, s_exc, s_calls, s_before,
                   s_renamed, r_pc, r_inode, r_rows, r_seen, r_calls, r_out,
                   r_prev, b_last>>

\* load(): the path exists, the thread goes for the lock
LoadCall ==
    /\ l_pc # "waiting" /\ l_calls < MaxLoads
    /\ l_pc' = "waiting"
    /\ l_calls' = l_calls + 1
    /\ UNCHANGED <<svars, bk_lock, gens, bk_kind, field_types, inodes, dir_target,
                   tmp_files, s_pc, s_tmp, s_data, s_exc, s_calls, s_before,
                   s_renamed, r_pc, r_inode, r_rows, r_seen, r_calls, r_out,
                   r_prev, b_last>>

\* load() gets the lock, reads, and leaves the with block by return or raise
LoadAcquire ==
    /\ l_pc = "waiting" /\ bk_lock = NoOwner
    /\ l_pc' = IF read_locked(bk_kind, TargetContent).err = "" THEN "done"
               ELSE "raised"
    /\ UNCHANGED <<svars, bk_lock, gens, l_calls, bk_kind, field_types, inodes,
                   dir_target, tmp_files, s_pc, s_tmp, s_data, s_exc, s_calls,
                   s_before, s_renamed, r_pc, r_inode, r_rows, r_seen, r_calls,
                   r_out, r_prev, b_last>>

NextStream ==
    \/ \E g \in Generators : StreamNext(g)
    \/ \E g \in Generators : StreamAcquire(g)
    \/ \E g \in Generators : StreamClose(g)
    \/ LoadCall
    \/ LoadAcquire

StreamFiles ==
    {EmptyContent,
     [header |-> {}, rows |-> <<X1, X2>>, complete |-> TRUE],
     [header |-> {}, rows |-> <<X1>>, complete |-> FALSE]}

InitStream ==
    /\ bk_kind \in {"json", "msgpack"}
    /\ field_types = EmptyDict
    /\ inodes \in {<<c>> : c \in StreamFiles}
    /\ dir_target = 1
    /\ tmp_files = {}
    /\ s_pc = "idle" /\ s_tmp = 0 /\ s_data = <<>> /\ s_exc = ""
    /\ s_calls = 0 /\ s_before = EmptyContent /\ s_renamed = FALSE
    /\ r_pc = "idle" /\ r_inode = 0 /\ r_rows = <<>> /\ r_seen = {} /\ r_calls = 0
    /\ r_out = <<>> /\ r_prev = NoSave
    /\ b_last = [op |-> "init", exc |-> ""]
    /\ IdleStreams
    /\ IdleStore

\* A thread that waits for the lock gets it when the lock stays free
SpecStream ==
    /\ InitStream /\ [][NextStream]_vars
    /\ WF_vars(LoadAcquire)
    /\ \A g \in Generators : WF_vars(StreamAcquire(g))

\* ------------------------------------------- CSVBackend with uneven records
\* Records with no field, with a field the first record lacks, and without a
\* field the first record has
X0 == EmptyDict
X3 == [id |-> S("c"), n |-> I("3"), extra |-> S("x")]
X4 == [id |-> S("d")]

CsvInputs == {<<>>, <<X0>>, <<X1>>, <<X1, X3>>, <<X1, X4>>, <<X4, X1>>}

NextCsv ==
    \/ \E data \in CsvInputs : SaveCall(data, "ok")
    \/ SaveBody("ok")
    \/ SaveRename(TRUE)
    \/ SaveFinally
    \/ ReadOpen
    \/ ReadRow
    \/ ReadEnd

InitCsv == InitBk /\ bk_kind = "csv" /\ inodes = <<EmptyContent>>

SpecCsv == InitCsv /\ [][NextCsv]_vars

Next ==
    \/ \E th \in Threads, t \in TableNames, data \in AddInputs : Add(th, t, data)
    \/ \E th \in Threads, t \in TableNames, w \in CondInputs, nd \in UpdateInputs :
          Update(th, t, w, nd)
    \/ \E th \in Threads, t \in TableNames, c \in CondInputs : Delete(th, t, c)
    \/ \E th \in Threads, t \in TableNames, data \in BatchInputs :
          BatchImport(th, t, data)
    \/ \E th \in Threads, t \in TableNames, c \in CondInputs : Find(th, t, c)
    \/ \E th \in Threads, t \in TableNames, it \in IndexTypes :
          CreateIndex(th, t, "status", it)
    \/ \E th \in Threads, t \in TableNames, wi \in BOOLEAN, ok \in BOOLEAN :
          CreateTable(th, t, wi, ok)
    \/ \E th \in Threads, t \in TableNames : DropTable(th, t)
    \/ \E th \in Threads, t \in TableNames, ok \in BOOLEAN : TruncateTable(th, t, ok)
    \/ \E th \in Threads : BeginTransaction(th)
    \/ \E th \in Threads, op \in {"commit_transaction", "rollback_transaction"} :
          EndCheck(th, op)
    \/ \E th \in Threads : EndPop(th)
    \/ \E th \in Threads : CommitBody(th)
    \/ \E th \in Threads : RollbackBody(th)
    \/ \E th \in Threads, op \in {"query", "export_table"}, t \in TableNames :
          ReadStart(th, op, t)
    \/ \E th \in Threads : ReadFile(th)
    \/ \E th \in Threads : ReadStore(th)
    \/ \E th \in Threads, ok \in BOOLEAN : Backup(th, ok)
    \/ \E th \in Threads : Restore(th)
    \/ WriterAcquire
    \/ \E ok \in BOOLEAN : WriterSave(ok)
    \/ WriterDone

Init == InitStore(MaxOps) /\ IdleBackend

Spec == Init /\ [][Next]_vars

\* ----------------------------------------------- runs of narrower scope
MaxTxnOps == 4
MaxAdds == 3

MainThread == "T1"

\* One caller working with transactions on table t1, and the worker
NextTxn ==
    \/ BeginTransaction(MainThread)
    \/ \E op \in {"commit_transaction", "rollback_transaction"} : EndCheck(MainThread, op)
    \/ EndPop(MainThread)
    \/ CommitBody(MainThread)
    \/ RollbackBody(MainThread)
    \/ \E data \in {RecB, [status |-> "done"]} : Add(MainThread, "t1", data)
    \/ Update(MainThread, "t1", <<C("id", "", "a")>>, [status |-> "done"])
    \/ Delete(MainThread, "t1", <<C("id", "", "a")>>)
    \/ BatchImport(MainThread, "t1", <<RecB>>)
    \/ WriterAcquire
    \/ \E ok \in BOOLEAN : WriterSave(ok)
    \/ WriterDone

InitTxn == InitStore(MaxTxnOps) /\ IdleBackend

SpecTxn == InitTxn /\ [][NextTxn]_vars

\* ------------------------------------- transactions run by several threads
MaxPairOps == 4

NextTxnThreads ==
    \/ \E th \in Threads : BeginTransaction(th)
    \/ \E th \in Threads, op \in {"commit_transaction", "rollback_transaction"} :
          EndCheck(th, op)
    \/ \E th \in Threads : EndPop(th)
    \/ \E th \in Threads : CommitBody(th)
    \/ \E th \in Threads : RollbackBody(th)

InitTxnThreads == InitStore(MaxPairOps) /\ IdleBackend

SpecTxnThreads == InitTxnThreads /\ [][NextTxnThreads]_vars

\* Several threads calling add(t1, status=...) without an id, and the worker
NextAdd ==
    \/ \E th \in Threads, s \in StatusValues : Add(th, "t1", [status |-> s])
    \/ WriterAcquire
    \/ \E ok \in BOOLEAN : WriterSave(ok)
    \/ WriterDone

InitAdd == InitStore(MaxAdds) /\ IdleBackend

SpecAdd == InitAdd /\ [][NextAdd]_vars

\* One caller running find / update / delete with every form of condition
\* over a table of people, and the worker
MaxMatchOps == 1

P18 == [id |-> "a", age |-> "18"]
P70 == [id |-> "b", age |-> "70"]
POld == [id |-> "c", age |-> "old"]
PNoAge == [id |-> "d", status |-> "open"]

MatchRecords == {P18, P70, POld, PNoAge}

\* The tables: up to three different records, in every order
MatchTables ==
    {<<>>} \cup
    UNION {{r \in [1..n -> MatchRecords] :
              \A i, j \in 1..n : i # j => r[i] # r[j]} : n \in 1..3}

MatchConds ==
    {<<>>,
     <<C("age", "gte", "18"), C("age", "lte", "65")>>,
     <<C("age", "gte", "30"), C("age", "lte", "70")>>,
     <<C("age", "gt", "18")>>,
     <<C("age", "lt", "70")>>,
     <<C("age", "in", "[18, 30]")>>,
     <<C("age", "gt", "x")>>,
     <<C("age", "lte", NoneValue)>>,
     <<C("age", "between", "18")>>,
     <<C("id", "", "a")>>,
     <<C("id", "", "b"), C("age", "between", "18")>>,
     <<C("id", "eq", "a"), C("age", "ne", "70")>>,
     <<C("status", "", NoneValue)>>,
     <<C("status", "", "open")>>,
     <<C("status", "ne", "done")>>,
     <<C("status", "nin", "[open, done]")>>,
     <<C("status", "like", "open")>>,
     <<C("status", "contains", "pe")>>,
     <<C("status", "startswith", "op")>>,
     <<C("status", "endswith", "en")>>,
     <<C("status", "regex", "on")>>}

NextMatch ==
    \/ \E conds \in MatchConds : Find(MainThread, "t1", conds)
    \/ \E conds \in MatchConds : Update(MainThread, "t1", conds, [status |-> "done"])
    \/ \E conds \in MatchConds : Delete(MainThread, "t1", conds)
    \/ WriterAcquire
    \/ \E ok \in BOOLEAN : WriterSave(ok)
    \/ WriterDone

InitMatch ==
    /\ op_limit = MaxMatchOps
    /\ auto_commit \in BOOLEAN
    /\ files \in {[t \in TableNames |-> IF t = "t1" THEN Complete(r) ELSE NoneFile] :
                    r \in MatchTables}
    /\ tables = discover_tables(files)
    /\ cache = [t \in TableNames |-> NotCached]
    /\ indexes = EmptyDict
    /\ pending_writes = <<>>
    /\ submitted = 0
    /\ transaction_stack = <<>>
    /\ lock = NoOwner
    /\ pc = [th \in Threads |-> "idle"]
    /\ local = [th \in Threads |-> NoLocal]
    /\ w_pc = "idle"
    /\ w_idx = 0
    /\ uuid_next = 0
    /\ ops = 0
    /\ last = Ret("init", "", "", 0, <<>>)
    /\ txn_obs = <<>>
    /\ find_cache = {}
    /\ future_exc = ""
    /\ archive = NoArchive
    /\ IdleBackend

SpecMatch == InitMatch /\ [][NextMatch]_vars

\* One caller building an index on t1.status and mutating the table, and
\* the worker
MaxIndexOps == 2

NextIndex ==
    \/ \E it \in IndexTypes : CreateIndex(MainThread, "t1", "status", it)
    \/ \E data \in AddInputs : Add(MainThread, "t1", data)
    \/ \E w \in CondInputs, nd \in UpdateInputs : Update(MainThread, "t1", w, nd)
    \/ \E c \in CondInputs : Delete(MainThread, "t1", c)
    \/ \E data \in BatchInputs : BatchImport(MainThread, "t1", data)
    \/ WriterAcquire
    \/ \E ok \in BOOLEAN : WriterSave(ok)
    \/ WriterDone

InitIndex == InitStore(MaxIndexOps) /\ IdleBackend

SpecIndex == InitIndex /\ [][NextIndex]_vars

\* One caller creating, indexing, truncating and dropping tables and working
\* on them, on a known table (t1) and on one the store does not know (t2),
\* and the worker
MaxTableOps == 3

NextTable ==
    \/ \E t \in TableNames, f \in Fields, it \in IndexTypes :
          CreateIndex(MainThread, t, f, it)
    \/ \E t \in TableNames : Add(MainThread, t, RecB)
    \/ \E t \in TableNames :
          Update(MainThread, t, <<C("id", "", "a")>>, [status |-> "done"])
    \/ \E t \in TableNames : Delete(MainThread, t, <<C("id", "", "a")>>)
    \/ \E t \in TableNames : BatchImport(MainThread, t, <<RecB>>)
    \/ \E t \in TableNames : Find(MainThread, t, <<>>)
    \/ \E t \in TableNames : ReadStart(MainThread, "query", t)
    \/ ReadFile(MainThread)
    \/ ReadStore(MainThread)
    \/ \E t \in TableNames, wi \in BOOLEAN, ok \in BOOLEAN :
          CreateTable(MainThread, t, wi, ok)
    \/ \E t \in TableNames : DropTable(MainThread, t)
    \/ \E t \in TableNames, ok \in BOOLEAN : TruncateTable(MainThread, t, ok)
    \/ WriterAcquire
    \/ \E ok \in BOOLEAN : WriterSave(ok)
    \/ WriterDone

InitTable == InitStore(MaxTableOps) /\ IdleBackend

SpecTable == InitTable /\ [][NextTable]_vars

\* Callers mutating t1 with auto_commit on, and a worker that is scheduled
\* whenever it has a task and whose saves succeed
MaxFlushOps == 3

NextFlush ==
    \/ \E th \in Threads, data \in {RecB, NoIdRec} : Add(th, "t1", data)
    \/ \E th \in Threads : Update(th, "t1", <<C("id", "", "a")>>, [status |-> "done"])
    \/ \E th \in Threads : Delete(th, "t1", <<C("id", "", "a")>>)
    \/ \E th \in Threads : BatchImport(th, "t1", <<RecB>>)
    \/ WriterAcquire
    \/ WriterSave(TRUE)
    \/ WriterDone

InitFlush == InitStore(MaxFlushOps) /\ auto_commit = TRUE /\ IdleBackend

\* ThreadPoolExecutor(max_workers=1): the worker thread runs a queued task,
\* and a thread blocked on the RLock gets it once the callers stop calling
SpecFlush ==
    /\ InitFlush /\ [][NextFlush]_vars
    /\ WF_vars(WriterAcquire) /\ WF_vars(WriterSave(TRUE)) /\ WF_vars(WriterDone)

\* One caller taking a backup, changing tables and restoring the backup,
\* and the worker
MaxBackupOps == 3

NextBackup ==
    \/ \E ok \in BOOLEAN : Backup(MainThread, ok)
    \/ Restore(MainThread)
    \/ \E t \in TableNames : Add(MainThread, t, RecB)
    \/ \E t \in TableNames : Delete(MainThread, t, <<C("id", "", "a")>>)
    \/ \E ok \in BOOLEAN : CreateTable(MainThread, "t2", FALSE, ok)
    \/ CreateIndex(MainThread, "t1", "status", "hash")
    \/ WriterAcquire
    \/ \E ok \in BOOLEAN : WriterSave(ok)
    \/ WriterDone

InitBackupRun == InitStore(MaxBackupOps) /\ IdleBackend

SpecBackup == InitBackupRun /\ [][NextBackup]_vars

\* ================================================================ claims
MutatingOps == {"add", "update", "delete", "batch_import"}

\* C1: once rollback_transaction has returned, every table mutated since the
\* matching begin_transaction reads exactly the records it held at begin.
C1_RollbackRestoresTables ==
    (last.op = "rollback_transaction" /\ last.err = "")
        => \A t \in last.touched : View(t) = last.base[t]

\* C2: while a save() has not renamed its temporary file onto the target
\* (it is still running, it failed, or the process was killed), the target
\* file holds exactly the bytes it held when save() was called.
C2_TargetUntouchedBeforeRename ==
    (s_calls > 0 /\ ~s_renamed) => TargetContent = s_before

C2_Witness ==
    /\ s_pc = "killed" /\ ~s_renamed
    /\ s_tmp # 0 /\ inodes[s_tmp].rows # <<>>
    /\ s_before.rows # <<>> /\ s_before.rows # inodes[s_tmp].rows

UniqueIds(recs) ==
    \A i, j \in DOMAIN recs :
        (i # j /\ Has(recs[i], "id") /\ Has(recs[j], "id")) => recs[i].id # recs[j].id

IndexedRight(t, recs) ==
    \A f \in DOMAIN indexes[t] :
        indexes[t][f].type = "hash" =>
            \A i \in DOMAIN recs :
                (Has(recs[i], "id") /\ Has(recs[i], f)) =>
                    /\ recs[i][f] \in DOMAIN indexes[t][f].data
                    /\ recs[i].id \in Range(indexes[t][f].data[recs[i][f]])
                    /\ \A v \in DOMAIN indexes[t][f].data \ {recs[i][f]} :
                          recs[i].id \notin Range(indexes[t][f].data[v])

\* C3: after a completed create_index, add, update, delete or batch_import,
\* every record of a table that has an id and the indexed field is in the
\* bucket of its value and in no other bucket (stated for exact-match
\* indexes and for tables whose ids are distinct).
C3_IndexMatchesRecords ==
    (last.op \in MutatingOps \cup {"create_index"} /\ last.err = "")
        => \A t \in DOMAIN indexes :
              (View(t).err = "" /\ UniqueIds(View(t).recs))
                  => IndexedRight(t, View(t).recs)

\* C4: once delete has returned n > 0, the sequence the next read of the
\* table obtains no longer contains a record matching the conditions.
C4_DeleteShowsInCache ==
    (last.op = "delete" /\ last.err = "" /\ last.n > 0)
        => \A i \in DOMAIN View(last.table).recs :
              matches(View(last.table).recs[i], last.conds) # "match"

\* C5: every add without a caller-supplied id returns successfully and leaves
\* the table with exactly one more record, carrying an id no earlier record
\* has, after the records that were there; no other step changes what the
\* table reads.  So N adds leave N more records with N distinct ids.
C5_NoAddLost ==
    [][LET before == View("t1").recs
           after == (View("t1").recs)'
       IN IF ops' = ops + 1
          THEN /\ last'.op = "add" /\ last'.err = ""
               /\ Len(after) = Len(before) + 1
               /\ SubSeq(after, 1, Len(before)) = before
               /\ \A i \in DOMAIN before : before[i].id # after[Len(after)].id
          ELSE after = before]_vars

C5_Witness ==
    /\ ops = 3 /\ last.op = "add" /\ last.err = ""
    /\ Len(View("t1").recs) = Len(files["t1"].recs) + 2
    /\ files["t1"].state = "complete" /\ files["t1"].recs # <<>>
    /\ w_pc = "flush"

\* C6: when commit_transaction has returned, the file of every table mutated
\* since the matching begin_transaction holds the table's current records.
C6_CommitFlushesTables ==
    (last.op = "commit_transaction" /\ last.err = "")
        => \A t \in last.touched :
              View(t).err = "" /\ files[t] = Complete(View(t).recs)

\* C7: no save made by the store leaves a table file emptied or partly
\* written: a file is always a complete old or a complete new content.
C7_NoPartialTableFile ==
    \A t \in TableNames : files[t].state # "partial"

\* C8: the cache and the transaction stack change only in steps of the
\* thread that holds the lock: while the worker holds it, only the worker's
\* own save changes them.
C8_SharedStateUnderLock ==
    [][(transaction_stack' # transaction_stack \/ cache' # cache)
          => (lock = NoOwner \/ (lock = Writer /\ w_idx' # w_idx))]_vars

\* C9: a load() or stream() that ends while saves run on the same file has
\* read the complete content the path held when it opened the file or a
\* complete content a save stored while it read; it never fails on a cut file.
C9_ReaderSeesWholeFile ==
    r_pc \in {"done", "failed"}
        => /\ r_pc = "done"
           /\ \E v \in r_seen : v.complete /\ v.rows = r_rows

C9_Witness ==
    /\ r_pc = "done" /\ s_renamed /\ r_rows # <<>>
    /\ r_rows # TargetContent.rows
    /\ Cardinality(r_seen) = 2

\* C10: when save() has returned or raised, no temporary file is left in
\* the directory.
C10_NoTempFileLeft ==
    s_pc = "idle" => tmp_files = {}

C10_Witness ==
    /\ s_pc = "idle" /\ b_last.op = "save"
    /\ b_last.exc = "StorageCorruptionError"
    /\ Len(inodes) > 1 /\ ~s_renamed

\* The format's own information loss: csv keeps bool, int and float values
\* and reduces every other value to its string
reduce_value(kind, v) ==
    IF kind = "csv" /\ v.ty \notin {"bool", "int", "float"} THEN S(v.s) ELSE v

reduce_records(kind, R) ==
    [i \in DOMAIN R |-> [f \in DOMAIN R[i] |-> reduce_value(kind, R[i][f])]]

\* A load() that was called after a save() had returned and that ran alone
LoadAfterSave ==
    /\ r_pc \in {"done", "failed", "raised"}
    /\ r_prev.returned /\ r_prev.exc = ""
    /\ s_pc = "idle" /\ s_calls = r_prev.calls

\* C11: in every backend, for every record sequence R (the empty one
\* included) and whatever the file held before, a load() that follows a
\* save(R) returns R up to the format's own information loss.
C11_SaveThenLoadReturnsSaved ==
    LoadAfterSave => (r_pc = "done" /\ r_out = reduce_records(bk_kind, r_prev.data))

EndOps == {"commit_transaction", "rollback_transaction"}

\* The method a step calls, when the step is the start of a call
StartingThread ==
    IF \E th \in Threads : pc'[th] # pc[th]
    THEN (CHOOSE th \in Threads : pc'[th] # pc[th])
    ELSE "none"

CalledOp ==
    IF ops' # ops + 1 THEN ""
    ELSE IF StartingThread # "none" THEN local'[StartingThread].op
    ELSE last'.op

\* C12: commit_transaction or rollback_transaction called on an empty
\* transaction stack raises TransactionError and changes neither the stack,
\* the cache, the indexes, the pending writes nor any table file.
C12_EndWithoutTransactionFails ==
    [][(CalledOp \in EndOps /\ transaction_stack = <<>>)
        => /\ last'.op = CalledOp /\ last'.err = "TransactionError"
           /\ UNCHANGED <<transaction_stack, cache, indexes, pending_writes, files>>]_vars

C12_Witness ==
    /\ last.op \in EndOps /\ last.err = "TransactionError"
    /\ transaction_stack = <<>>
    /\ pending_writes # <<>>
    /\ \E t \in TableNames : cache[t].hit

\* A thread takes the top frame off the stack
Pops(th) == pc[th] = "pop" /\ pc'[th] = "body"

\* C13: begin_transaction pushes exactly one frame with an empty table set
\* and an empty snapshot; every commit or rollback that succeeds has popped
\* exactly the top frame; nothing else changes the stack, so its depth is the
\* number of begins minus the number of successful commits and rollbacks.
C13_StackDiscipline ==
    [][/\ CalledOp = "begin_transaction"
            => transaction_stack' =
                 Append(transaction_stack, [tables |-> {}, original_data |-> <<>>])
       /\ \A th \in Threads :
            Pops(th) => /\ local[th].op \in EndOps
                        /\ transaction_stack # <<>>
                        /\ transaction_stack' =
                             SubSeq(transaction_stack, 1, Len(transaction_stack) - 1)
                        /\ local'[th].frame =
                             transaction_stack[Len(transaction_stack)]
       /\ \A th \in Threads :
            (pc[th] = "body" /\ pc'[th] = "idle")
                => /\ last'.op = local[th].op /\ last'.err = ""
                   /\ transaction_stack' = transaction_stack
       /\ (last' # last /\ last'.op \in EndOps /\ last'.err = "")
            => \E th \in Threads : pc[th] = "body" /\ pc'[th] = "idle"
       /\ transaction_stack' # transaction_stack
            => (CalledOp = "begin_transaction" \/ \E th \in Threads : Pops(th))
      ]_vars

\* An inner transaction has ended and the outer frame is on top again
C13_Witness ==
    /\ Len(transaction_stack) = 1
    /\ last.op \in EndOps /\ last.err = ""
    /\ ops = 3
    /\ \A th \in Threads : pc[th] = "idle"

ScanOps == {"find", "update", "delete"}

\* What a condition asks of a stored value a, given the query value b
Holds(op, a, b) ==
    CASE op \in {"", "eq"} -> a = b
      [] op = "ne" -> a # b
      [] op \in {"gt", "lt", "gte", "lte"} ->
            /\ TypeOf(a) = TypeOf(b) /\ TypeOf(a) \in {"int", "str"}
            /\ (IF op = "gt" THEN Rank(a) > Rank(b)
                ELSE IF op = "lt" THEN Rank(a) < Rank(b)
                ELSE IF op = "gte" THEN Rank(a) >= Rank(b)
                ELSE Rank(a) =< Rank(b))
      [] op = "in" -> a \in Members[b]
      [] op = "nin" -> a \notin Members[b]
      [] op \in {"contains", "regex"} -> contains(a, b)
      [] op = "startswith" -> startswith(a, b)
      [] op = "endswith" -> endswith(a, b)

\* The record has the field and the field's value meets the condition
Satisfies(row, c) == Has(row, c.field) /\ Holds(c.op, row[c.field], c.value)

SatisfiesAll(row, conds) == \A i \in DOMAIN conds : Satisfies(row, conds[i])

InAgeRange(row, lo, hi) ==
    /\ Has(row, "age") /\ TypeOf(row.age) = "int"
    /\ lo =< IntOf[row.age] /\ IntOf[row.age] =< hi

AgeRangeQuery == <<C("age", "gte", "18"), C("age", "lte", "65")>>

C15_AbsentFieldNeverMatches ==
    (last.op = "find" /\ last.err = "")
    => \A i \in DOMAIN last.base : \A k \in DOMAIN last.conds :
          Has(last.base[i], last.conds[k].field)

\* C16: find, update or delete with a condition whose operator suffix is
\* not a known one fails with InvalidDataError, whatever the table holds.
C16_UnknownOperatorRejected ==
    (/\ last.op \in ScanOps
     /\ \E k \in DOMAIN last.conds : last.conds[k].op \notin KnownOps \cup {""})
    => last.err = "InvalidDataError"

OrderOps == {"gt", "lt", "gte", "lte"}

Orderable(a, b) == TypeOf(a) = TypeOf(b) /\ TypeOf(a) \in {"int", "str"}

\* C17: when an ordering condition meets a stored value that cannot be
\* ordered against the query value, find, update or delete fails with
\* InvalidDataError.  Stated for the comparison every scan reaches first:
\* the first condition on the first record.
C17_UnorderableIsInvalidData ==
    [][LET recs == load_table_in(tables, cache, files, last'.table).recs
       IN (/\ ops' = ops + 1 /\ last'.op \in ScanOps
           /\ last'.conds # <<>> /\ recs # <<>>
           /\ last'.conds[1].op \in OrderOps
           /\ Has(recs[1], last'.conds[1].field)
           /\ ~Orderable(recs[1][last'.conds[1].field], last'.conds[1].value))
          => last'.err = "InvalidDataError"]_vars

\* The ids in bucket v of the index on t.f
Bucket(ix, t, f, v) ==
    IF v \in DOMAIN ix[t][f].data THEN Range(ix[t][f].data[v]) ELSE {}

Truthy(v) == v \notin {NoneValue, ""}

\* C18: with an index on status, an update that changes a record's status
\* (and not its id) takes the record's id out of the bucket of the previous
\* value, puts it into the bucket of the new value, and leaves no empty
\* bucket behind.
C18_UpdateMovesIndexEntry ==
    [][LET t == last'.table
           before == load_table_in(tables, cache, files, t).recs
           after == load_table_in(tables', cache', files', t).recs
       IN (/\ ops' = ops + 1 /\ last'.op = "update" /\ last'.err = ""
           /\ t \in DOMAIN indexes /\ "status" \in DOMAIN indexes[t])
          => /\ \A i \in DOMAIN before :
                  (/\ Has(before[i], "status") /\ Has(before[i], "id")
                   /\ Truthy(before[i].id)
                   /\ after[i].id = before[i].id
                   /\ after[i].status # before[i].status)
                  => /\ before[i].id \notin
                           Bucket(indexes', t, "status", before[i].status)
                     /\ before[i].id \in
                           Bucket(indexes', t, "status", after[i].status)
             /\ \A v \in DOMAIN indexes'[t]["status"].data :
                  indexes'[t]["status"].data[v] # <<>>]_vars

C18_Witness ==
    /\ ops = 2 /\ last.op = "update" /\ last.err = "" /\ last.n = 1
    /\ "t1" \in DOMAIN indexes /\ "status" \in DOMAIN indexes["t1"]
    /\ indexes["t1"]["status"].type = "hash"
    /\ View("t1").recs = <<[id |-> "a", status |-> "done"]>>
    /\ files["t1"] = Complete(<<RecA>>)
    /\ indexes["t1"]["status"].data = [v \in {"done"} |-> <<"a">>]

IndexingOps == {"create_index", "add", "batch_import", "update", "delete"}

\* C19: index maintenance skips records without an id: create_index over a
\* table that holds such a record, and add, batch_import, update and delete
\* touching one, complete without error, and no bucket ever holds anything
\* but the id of a record.  Stated for a table that loads and, for
\* create_index, a field that has no index yet.
C19_IdlessRecordsSkipped ==
    [][LET t == last'.table
       IN (/\ ops' = ops + 1 /\ last'.op \in IndexingOps
           /\ load_table_in(tables, cache, files, t).err = ""
           /\ last'.op = "create_index"
                => ~(t \in DOMAIN indexes /\ "status" \in DOMAIN indexes[t]))
          => /\ last'.err = ""
             /\ t \in DOMAIN indexes'
                  => \A f \in DOMAIN indexes'[t] :
                       \A v \in DOMAIN indexes'[t][f].data :
                          \A k \in DOMAIN indexes'[t][f].data[v] :
                             Truthy(indexes'[t][f].data[v][k])]_vars

\* C20: in every state, every id in a bucket index[t][f][v] is the id of a
\* record that table t holds now and whose field f equals v.
C20_NoStaleIndexEntries ==
    \A t \in DOMAIN indexes :
       View(t).err = ""
       => \A f \in DOMAIN indexes[t] : \A v \in DOMAIN indexes[t][f].data :
             \A k \in DOMAIN indexes[t][f].data[v] :
                \E i \in DOMAIN View(t).recs :
                   /\ Has(View(t).recs[i], "id") /\ Has(View(t).recs[i], f)
                   /\ View(t).recs[i].id = indexes[t][f].data[v][k]
                   /\ View(t).recs[i][f] = v


\* C21: create_index on a field of the table that already has an index fails
\* with InvalidDataError and leaves the index, its kind and its buckets (and
\* every other index) as they were.
C21_DuplicateIndexRejected ==
    [][(/\ CalledOp = "create_index"
        /\ last'.table \in DOMAIN indexes
        /\ last'.base[1] \in DOMAIN indexes[last'.table])
       => /\ last'.err = "InvalidDataError"
          /\ indexes' = indexes]_vars

C21_Witness ==
    /\ last.op = "create_index" /\ last.err = "InvalidDataError"
    /\ last.base = <<"status", "btree">>
    /\ indexes["t1"]["status"].type = "hash"
    /\ "open" \in DOMAIN indexes["t1"]["status"].data
    /\ "id" \notin DOMAIN indexes["t1"]
\* The table a step's call names, when the step is the start of a call
CalledTable ==
    IF StartingThread # "none" THEN local'[StartingThread].table ELSE last'.table

TableOps == {"find", "add", "update", "delete", "batch_import", "query", "create_index"}

\* C22: find, add, update, delete, batch_import, query and create_index on a
\* table that is not in the known-table set fail with TableNotFoundError and
\* change neither the known-table set, the cache, the pending writes nor any
\* table file.
C22_UnknownTableRejected ==
    [][(CalledOp \in TableOps /\ CalledTable \notin tables)
       => /\ last'.op = CalledOp /\ last'.err = "TableNotFoundError"
          /\ UNCHANGED <<tables, cache, pending_writes, files>>]_vars

\* C23: once drop_table(t, confirm=True) has returned successfully (and until
\* the next call), t is not a known table and has no file, no cache entry
\* and no index entry.
C23_DroppedTableGone ==
    (last.op = "drop_table" /\ last.err = "")
        => /\ last.table \notin tables
           /\ files[last.table].state = "none"
           /\ ~cache[last.table].hit
           /\ last.table \notin DOMAIN indexes

\* C24: a truncate_table(t, confirm=True) of a known table that returns
\* leaves t known, its file complete and empty, and every index that was
\* declared on t in place, of the same kind, with no entries (so that
\* records added afterwards are entered into it).
C24_TruncateKeepsStructure ==
    [][(CalledOp = "truncate_table" /\ last'.err = "" /\ last'.table \in tables)
       => /\ last'.table \in tables'
          /\ files'[last'.table] = Complete(<<>>)
          /\ last'.table \in DOMAIN indexes =>
                /\ last'.table \in DOMAIN indexes'
                /\ \A f \in DOMAIN indexes[last'.table] :
                      /\ f \in DOMAIN indexes'[last'.table]
                      /\ indexes'[last'.table][f] =
                            [type |-> indexes[last'.table][f].type,
                             data |-> EmptyDict]]_vars

\* C25: in every backend, a save() whose write to the temporary file fails
\* with ENOSPC ends with DiskFullError, and one whose write or rename fails
\* with another I/O error ends with StorageCorruptionError.
C25_DiskFullIsDistinguished ==
    [][/\ (s_pc = "except" /\ s_tmp # 0 /\ s_pc' = "finally")
            => s_exc' = IF s_exc = "ENOSPC" THEN "DiskFullError"
                        ELSE "StorageCorruptionError"
       /\ (s_pc = "finally" /\ s_tmp # 0 /\ s_pc' = "idle")
            => b_last'.exc = s_exc]_vars

C27_FlushDoesNotBlockCallers ==
    (w_pc = "flush" /\ w_idx <= Len(pending_writes) /\ ops < op_limit)
        => \A th \in Threads : \A t \in TableNames :
              pc[th] = "idle" =>
                 /\ ENABLED Add(th, t, RecB)
                 /\ ENABLED Find(th, t, <<>>)
                 /\ ENABLED Update(th, t, <<C("id", "", "a")>>, [status |-> "done"])
                 /\ ENABLED Delete(th, t, <<C("id", "", "a")>>)

\* C28: a save that fails during a deferred flush is surfaced to a caller:
\* its exception never ends up only in a Future that nothing refers to.
C28_FlushFailureSurfaced ==
    future_exc = ""

\* C29: once restore(archive, confirm=True) of the archive a backup() wrote
\* has returned (and until the next call), the known tables are the archive's
\* tables, each reads and holds on file the archived records, and every
\* other table that was known before has no file, no cache entry and no
\* index, also when writes were pending when restore was called.
C29_RestoreReinstatesArchive ==
    (last.op = "restore" /\ last.err = "")
        => /\ tables = archive.tables
           /\ \A t \in archive.tables :
                 /\ View(t) = [err |-> "", recs |-> archive.data[t]]
                 /\ files[t] = Complete(archive.data[t])
           /\ \A t \in last.touched \ archive.tables :
                 /\ files[t].state = "none"
                 /\ ~cache[t].hit
                 /\ t \in DOMAIN indexes => indexes[t] = EmptyDict

\* C30: in every reachable state no two records of a table carry the same
\* id, whatever add and batch_import calls were made, caller-supplied ids
\* included.
C30_IdsUniquePerTable ==
    \A t \in tables : View(t).err = "" => UniqueIds(View(t).recs)

\* The top frame of a transaction stack
TopFrame(stack) == stack[Len(stack)]

\* C31: while a frame is active, an add, update, delete or batch_import
\* that changes a table puts the table into the top frame's set of tables
\* and, the first time, stores the records the table held before the call in
\* the frame's original_data, in the step of the mutation; a snapshot that
\* is stored is left as it is by later mutations.
C31_FrameRecordsMutations ==
    [][(/\ CalledOp \in MutatingOps /\ last'.err = "" /\ last'.n > 0
        /\ transaction_stack # <<>>)
       => LET t == last'.table
              before == TopFrame(transaction_stack)
              after == TopFrame(transaction_stack')
          IN /\ Len(transaction_stack') = Len(transaction_stack)
             /\ t \in after.tables
             /\ t \in DOMAIN after.original_data
             /\ after.original_data[t] =
                   IF t \in DOMAIN before.original_data
                   THEN before.original_data[t]
                   ELSE load_table_in(tables, cache, files, t).recs]_vars

\* C32: an update that fails leaves the table as it was: the records of
\* the table, the indexes and the table files after the call are those
\* before it.
C32_FailedUpdateChangesNothing ==
    [][(CalledOp = "update" /\ last'.err # "")
       => /\ load_table_in(tables', cache', files', last'.table).recs =
               load_table_in(tables, cache, files, last'.table).recs
          /\ indexes' = indexes
          /\ files' = files]_vars

\* C33: a restore that fails leaves the set of known tables and every table
\* file as they were before the call.
C33_FailedRestoreChangesNothing ==
    [][(CalledOp = "restore" /\ last'.err # "")
       => (tables' = tables /\ files' = files)]_vars

\* C34: in a CSVBackend the remembered field types do not change once a
\* save() of a non-empty record sequence has set them: after the latest
\* save() was given records, no step changes field_types.
C34_FieldTypesFixedByFirstSave ==
    [][(bk_kind = "csv" /\ s_calls >= 1 /\ s_pc = "idle" /\ s_data # <<>>)
       => field_types' = field_types]_vars

\* C35: a CSV save() whose first record has fields followed by load()
\* returns every record with exactly its own fields, and a field the first
\* record lacks comes back as the text of its value.
C35_LaterFieldsKept ==
    (/\ LoadAfterSave /\ bk_kind = "csv" /\ r_prev.calls = 1
     /\ r_prev.data # <<>> /\ DOMAIN r_prev.data[1] # {})
    => /\ r_pc = "done"
       /\ Len(r_out) = Len(r_prev.data)
       /\ \A i \in DOMAIN r_out :
             /\ DOMAIN r_out[i] = DOMAIN r_prev.data[i]
             /\ \A f \in DOMAIN r_prev.data[i] \ DOMAIN r_prev.data[1] :
                   r_out[i][f] = S(r_prev.data[i][f].s)

\* C36: a find that directly follows a completed add or delete on the same
\* table returns, in table order, exactly the records of the table as the
\* mutation left it that satisfy the conditions, also when the same find
\* was called before the mutation.
C36_FindSeesCompletedMutation ==
    [][(/\ CalledOp = "find" /\ last'.err = ""
        /\ last.op \in {"add", "delete"} /\ last.err = "" /\ last.n > 0
        /\ last.table = last'.table)
       => LET recs == load_table_in(tables, cache, files, last'.table).recs
          IN last'.base =
               SelectSeqBy(recs, [i \in DOMAIN recs |->
                                    SatisfiesAll(recs[i], last'.conds)])]_vars

RemovingOps == {"delete", "truncate_table", "drop_table"}

\* The records a table shows in its cached sequence or in its file
Present(tb, ch, fl, t) ==
    Range(load_table_in(tb, ch, fl, t).recs) \cup Range(fl[t].recs)

\* C37: once a delete, truncate_table or drop_table has returned, a step
\* that is not a call of the store (the deferred flush) brings no record
\* into the cached sequence or the file of that table that was in neither
\* before the step, and does not bring back the file of a dropped table.
C37_RemovedRecordsStayRemoved ==
    [][(last.op \in RemovingOps /\ last.err = "" /\ last' = last /\ ops' = ops)
       => /\ Present(tables', cache', files', last.table)
               \subseteq Present(tables, cache, files, last.table)
          /\ files[last.table] = NoneFile => files'[last.table] = NoneFile]_vars

\* A step of a query or export_table that is past its start
ReadStep == \E th \in Threads : pc[th] \in {"load_read", "load_store"} /\ pc'[th] # pc[th]

\* C38: the record a completed add put into the table's cached sequence is
\* still in the cached sequence after any step of a query or export_table
\* that another thread runs.
C38_ReadKeepsAddedRecord ==
    [][(/\ ReadStep /\ last.op = "add" /\ last.err = ""
        /\ cache[last.table].hit
        /\ last.base[1] \in Range(cache[last.table].recs))
       => (/\ cache'[last.table].hit
           /\ last.base[1] \in Range(cache'[last.table].recs))]_vars

\* The thread has pushed a frame that is still on the stack
HasOpenFrame(th) == \E i \in DOMAIN txn_obs : txn_obs[i].owner = th

\* C39: a commit_transaction or rollback_transaction of a thread that has a
\* frame of its own on the stack pops a frame that the same thread's
\* begin_transaction pushed, and does not fail for want of a transaction.
C39_EndPopsOwnFrame ==
    [][\A th \in Threads :
          (pc[th] = "pop" /\ pc'[th] # "pop" /\ HasOpenFrame(th))
          => (/\ pc'[th] = "body"
              /\ local'[th].obs.owner = th)]_vars

\* C40: on a JSONBackend or MsgpackBackend a load() that has been called
\* returns or raises, and a fresh stream() that has been started gets past
\* the lock, whatever other generators of the backend are suspended.
C40_ReadsTerminate ==
    /\ (l_pc = "waiting") ~> (l_pc # "waiting")
    /\ \A g \in Generators : (gens[g].pc = "acquiring") ~> (gens[g].pc # "acquiring")

====
